---- MODULE Spec2Model ----
(***************************************************************************)
(* A model of rails-factorybot-jump: the cache store (CacheManager), the   *)
(* definition extractor (FactoryParser over the regexPatterns) and the     *)
(* initialization logic of FactoryLinkProvider.                            *)
(*                                                                         *)
(* Time is in milliseconds, as Date.now() is.  One operation of the store  *)
(* is synchronous, so every Date.now() it reads is the same instant `now`. *)
(***************************************************************************)
EXTENDS Integers, Sequences, FiniteSets, TLC

VARIABLES
  cacheManager,   \* the CacheManager object: its five private fields
  now,            \* Date.now()
  opCount,        \* how many store operations have been called
  lastOp,         \* the store operation that ran last, with its arguments
  result,         \* what that operation returned
  text,           \* the content of the file handed to FactoryParser.parseText
  parseResult,    \* what parseText returned for it
  workspace,      \* the factory files of the workspace: uri -> content
  provider,       \* the FactoryLinkProvider object: its initialization state
  runs,           \* the calls of initializeFactoryFiles that passed the guard
  mtime,          \* the modification time of each file: uri -> stat.mtime
  changes         \* the change events of the file watcher and their handlers

cacheVars == <<cacheManager, now, opCount, lastOp, result>>
parserVars == <<text, parseResult>>
providerVars == <<workspace, provider, runs, mtime, changes>>
vars == <<cacheVars, parserVars, providerVars>>

-----------------------------------------------------------------------------
(* Bounds and universes                                                    *)

MaxTicks == 2
MaxOps == 3

\* The clock advances in steps of 100 ms
TickSteps == {100}

Undefined == "undefined"
Null == "null"

\* A value that may be undefined: None is `undefined`, Some(v) is the value v
None == {}
Some(v) == {v}

FactoryNames == {"a", "b"}
TraitNames == {"t"}
Uris == {"spec/factories/u.rb", "test/factories/u.rb"}
Lines == {0}

-----------------------------------------------------------------------------
(* models: Location, Trait, Factory                                        *)

Location(uri, line) == [uri |-> uri, line |-> line]

Trait(name, location, factoryName) ==
  [name |-> name, location |-> location, factoryName |-> factoryName]

\* Trait.getKey: `${factoryName}:${name}`
getKey(trait) == trait.factoryName \o ":" \o trait.name

\* new Factory(name, location): no parent, an empty trait map
Factory(name, location) ==
  [name |-> name, location |-> location, parentFactory |-> Undefined,
   traits |-> {}]

-----------------------------------------------------------------------------
(* A JavaScript Map, as the set of its entries; `key` is the Map key.      *)

MapHas(m, k) == \E e \in m : e.key = k
MapGet(m, k) == CHOOSE e \in m : e.key = k
MapSet(m, k, e) == {x \in m : x.key # k} \cup {e}
MapDelete(m, k) == {x \in m : x.key # k}
MapSize(m) == Cardinality(m)

-----------------------------------------------------------------------------
(* CacheManager                                                            *)

DEFAULT_CACHE_TIMEOUT == 60000
MIN_CACHE_TIMEOUT == 1000

\* constructor(cacheTimeoutMs?); an omitted argument is falsy, as 0 is
NewCacheManager(cacheTimeoutMs) ==
  [factoryCache |-> {}, traitCache |-> {}, fileCache |-> {},
   isInitialized |-> FALSE,
   cacheTimeout |-> IF cacheTimeoutMs # 0
                    THEN cacheTimeoutMs ELSE DEFAULT_CACHE_TIMEOUT]

\* A sweep that takes an entry of age exactly the TTL for expired
isCacheExpired_AtTtl(cm, timestamp, currentTime) ==
  currentTime - timestamp >= cm.cacheTimeout

\* isCacheExpired(timestamp, currentTime)
isCacheExpired(cm, timestamp, currentTime) ==
  currentTime - timestamp > cm.cacheTimeout

\* addToFileCache(fileUri, factoryName, traitKey).  The arrays `factories` and
\* `traits` never hold a name twice (the includes() guard) and their order is
\* never read, so they are sets here.
addToFileCache(cm, fileUri, factoryName, traitKey, t) ==
  LET fileInfo == IF MapHas(cm.fileCache, fileUri)
                  THEN MapGet(cm.fileCache, fileUri)
                  ELSE [key |-> fileUri, lastModified |-> t,
                        factories |-> {}, traits |-> {}]
      withFactory == IF factoryName # Null /\ factoryName \notin fileInfo.factories
                     THEN fileInfo.factories \cup {factoryName}
                     ELSE fileInfo.factories
      withTrait == IF traitKey # Null /\ traitKey \notin fileInfo.traits
                   THEN fileInfo.traits \cup {traitKey}
                   ELSE fileInfo.traits
  IN [cm EXCEPT !.fileCache =
        MapSet(@, fileUri, [key |-> fileUri, lastModified |-> t,
                            factories |-> withFactory, traits |-> withTrait])]

\* An upsert that keeps the entry already cached under the name
cacheFactory_KeepExisting(cm, factory, t) ==
  IF MapHas(cm.factoryCache, factory.name) THEN cm
  ELSE addToFileCache(
         [cm EXCEPT !.factoryCache =
            MapSet(@, factory.name,
                   [key |-> factory.name, factory |-> factory, timestamp |-> t])],
         factory.location.uri, factory.name, Null, t)

\* cacheFactory(factory)
cacheFactory(cm, factory, t) ==
  addToFileCache(
    [cm EXCEPT !.factoryCache =
       MapSet(@, factory.name,
              [key |-> factory.name, factory |-> factory, timestamp |-> t])],
    factory.location.uri, factory.name, Null, t)

\* An upsert that leaves a cached trait the timestamp it has
cacheTrait_KeepTimestamp(cm, trait, t) ==
  addToFileCache(
    [cm EXCEPT !.traitCache =
       MapSet(@, getKey(trait),
              [key |-> getKey(trait), trait |-> trait,
               timestamp |-> IF MapHas(cm.traitCache, getKey(trait))
                             THEN MapGet(cm.traitCache, getKey(trait)).timestamp
                             ELSE t])],
    trait.location.uri, Null, getKey(trait), t)

\* cacheTrait(trait)
cacheTrait(cm, trait, t) ==
  addToFileCache(
    [cm EXCEPT !.traitCache =
       MapSet(@, getKey(trait),
              [key |-> getKey(trait), trait |-> trait, timestamp |-> t])],
    trait.location.uri, Null, getKey(trait), t)

\* cacheFactories(factories) / the forEach of updateFileCache
RECURSIVE cacheFactories(_, _, _)
cacheFactories(cm, factories, t) ==
  IF factories = <<>> THEN cm
  ELSE cacheFactories(cacheFactory(cm, Head(factories), t), Tail(factories), t)

\* cacheTraits(traits)
RECURSIVE cacheTraits(_, _, _)
cacheTraits(cm, traits, t) ==
  IF traits = <<>> THEN cm
  ELSE cacheTraits(cacheTrait(cm, Head(traits), t), Tail(traits), t)

\* A removal that leaves the traits of the file cached
removeFileFromCache_KeepTraits(cm, fileUri) ==
  IF MapHas(cm.fileCache, fileUri)
  THEN LET fileInfo == MapGet(cm.fileCache, fileUri)
       IN [cm EXCEPT
             !.factoryCache = {e \in @ : e.key \notin fileInfo.factories},
             !.fileCache = MapDelete(@, fileUri)]
  ELSE cm

\* A removal that drops the index entry and leaves the entities cached
removeFileFromCache_IndexOnly(cm, fileUri) ==
  [cm EXCEPT !.fileCache = MapDelete(@, fileUri)]

\* removeFileFromCache(fileUri)
removeFileFromCache(cm, fileUri) ==
  IF MapHas(cm.fileCache, fileUri)
  THEN LET fileInfo == MapGet(cm.fileCache, fileUri)
       IN [cm EXCEPT
             !.factoryCache = {e \in @ : e.key \notin fileInfo.factories},
             !.traitCache = {e \in @ : e.key \notin fileInfo.traits},
             !.fileCache = MapDelete(@, fileUri)]
  ELSE cm

\* An update that leaves the old entries of the file where they are
updateFileCache_KeepOld(cm, fileUri, factories, traits, t) ==
  cacheTraits(cacheFactories(cm, factories, t), traits, t)

\* updateFileCache(fileUri, factories, traits)
updateFileCache(cm, fileUri, factories, traits, t) ==
  cacheTraits(cacheFactories(removeFileFromCache(cm, fileUri), factories, t),
              traits, t)

\* getCacheStats()
getCacheStats(cm) ==
  [factoryCount |-> MapSize(cm.factoryCache),
   traitCount |-> MapSize(cm.traitCache),
   fileCount |-> MapSize(cm.fileCache),
   isInitialized |-> cm.isInitialized,
   cacheTimeout |-> cm.cacheTimeout]

\* getFactory(factoryName): the value returned
getFactoryValue(cm, factoryName, t) ==
  IF ~MapHas(cm.factoryCache, factoryName) THEN None
  ELSE LET cached == MapGet(cm.factoryCache, factoryName)
       IN IF isCacheExpired(cm, cached.timestamp, t) THEN None
          ELSE Some(cached.factory)

\* A lookup that leaves an expired entry where it is
getFactoryStore_Keep(cm, factoryName, t) == cm

\* getFactory(factoryName): the store it leaves
getFactoryStore(cm, factoryName, t) ==
  IF ~MapHas(cm.factoryCache, factoryName) THEN cm
  ELSE LET cached == MapGet(cm.factoryCache, factoryName)
       IN IF isCacheExpired(cm, cached.timestamp, t)
          THEN [cm EXCEPT !.factoryCache = MapDelete(@, factoryName)]
          ELSE cm

\* getTrait(factoryName, traitName): the value returned
getTraitValue(cm, factoryName, traitName, t) ==
  LET key == factoryName \o ":" \o traitName
  IN IF ~MapHas(cm.traitCache, key) THEN None
     ELSE LET cached == MapGet(cm.traitCache, key)
          IN IF isCacheExpired(cm, cached.timestamp, t) THEN None
             ELSE Some(cached.trait)

\* A lookup that takes the expiry of an entry for the end of the index
getTraitStore_Invalidate(cm, factoryName, traitName, t) ==
  LET key == factoryName \o ":" \o traitName
  IN IF ~MapHas(cm.traitCache, key) THEN cm
     ELSE LET cached == MapGet(cm.traitCache, key)
          IN IF isCacheExpired(cm, cached.timestamp, t)
             THEN [cm EXCEPT !.traitCache = MapDelete(@, key),
                             !.isInitialized = FALSE]
             ELSE cm

\* getTrait(factoryName, traitName): the store it leaves
getTraitStore(cm, factoryName, traitName, t) ==
  LET key == factoryName \o ":" \o traitName
  IN IF ~MapHas(cm.traitCache, key) THEN cm
     ELSE LET cached == MapGet(cm.traitCache, key)
          IN IF isCacheExpired(cm, cached.timestamp, t)
             THEN [cm EXCEPT !.traitCache = MapDelete(@, key)]
             ELSE cm

\* A removal that forgets the traits of the factory
removeFactory_NoCascade(cm, factoryName) ==
  [cm EXCEPT !.factoryCache = MapDelete(@, factoryName)]

\* removeFactory(factoryName)
removeFactory(cm, factoryName) ==
  LET traitsToRemove ==
        {e.key : e \in {x \in cm.traitCache : x.trait.factoryName = factoryName}}
  IN [cm EXCEPT !.factoryCache = MapDelete(@, factoryName),
                !.traitCache = {e \in @ : e.key \notin traitsToRemove}]

\* clearFactoryCache()
clearFactoryCache(cm) == [cm EXCEPT !.factoryCache = {}]

\* clearTraitCache()
clearTraitCache(cm) == [cm EXCEPT !.traitCache = {}]

\* A clearAll that leaves the initialized flag as it is
clearAll_KeepFlag(cm) ==
  [clearTraitCache(clearFactoryCache(cm)) EXCEPT !.fileCache = {}]

\* clearAll()
clearAll(cm) ==
  [clearTraitCache(clearFactoryCache(cm)) EXCEPT
     !.fileCache = {}, !.isInitialized = FALSE]

\* A sweep of the factories that leaves the traits alone
cleanupExpiredEntries_FactoriesOnly(cm, t) ==
  [cm EXCEPT !.factoryCache =
     {e \in @ : ~isCacheExpired(cm, e.timestamp, t)}]

\* cleanupExpiredEntries()
cleanupExpiredEntries(cm, t) ==
  LET factoriesToRemove ==
        {e.key : e \in {x \in cm.factoryCache : isCacheExpired(cm, x.timestamp, t)}}
      traitsToRemove ==
        {e.key : e \in {x \in cm.traitCache : isCacheExpired(cm, x.timestamp, t)}}
  IN [cm EXCEPT !.factoryCache = {e \in @ : e.key \notin factoriesToRemove},
                !.traitCache = {e \in @ : e.key \notin traitsToRemove}]

\* setInitialized(initialized)
setInitialized(cm, initialized) == [cm EXCEPT !.isInitialized = initialized]

\* A setter that takes the timeout as it is given
setCacheTimeout_NoFloor(cm, timeoutMs) == [cm EXCEPT !.cacheTimeout = timeoutMs]

\* setCacheTimeout(timeoutMs)
setCacheTimeout(cm, timeoutMs) ==
  [cm EXCEPT !.cacheTimeout =
     IF timeoutMs > MIN_CACHE_TIMEOUT THEN timeoutMs ELSE MIN_CACHE_TIMEOUT]

-----------------------------------------------------------------------------
(* The store under its callers: the operations of CacheManager that insert, *)
(* read and remove entries, called in any order with any argument, and the  *)
(* clock.  The store is built as the expiry tests build it, with a TTL of   *)
(* 100 ms.                                                                  *)

FactoryInputs ==
  {Factory(n, Location(u, l)) : n \in FactoryNames, u \in Uris, l \in Lines}

TraitInputs ==
  {Trait(tn, Location(u, l), fn) :
     tn \in TraitNames, u \in Uris, l \in Lines, fn \in FactoryNames}

Range(s) == {s[i] : i \in DOMAIN s}

\* The lists a caller hands to updateFileCache(uri, ..): the parse result of
\* that file, so every location is in `uri`; the entities are in the order of
\* their names, and no name comes twice
Rank(n) == CASE n = "a" -> 1 [] n = "b" -> 2 [] OTHER -> 3

\* The rank of a factory is that of its name, the rank of a trait that of its
\* factory's name
EntityRank(x) ==
  IF "factoryName" \in DOMAIN x THEN Rank(x.factoryName) ELSE Rank(x.name)

ListsOf(S) ==
  {<<>>} \cup {<<x>> : x \in S}
         \cup {xy \in {<<x, y>> : x \in S, y \in S} :
                 EntityRank(xy[1]) < EntityRank(xy[2])}

FileFactoryLists(uri) ==
  ListsOf({f \in FactoryInputs : f.location.uri = uri})

\* At most one trait per list
FileTraitLists(uri) ==
  {l \in ListsOf({tr \in TraitInputs : tr.location.uri = uri}) :
     Len(l) <= 1}

CtorTimeouts == {100}

InitCache ==
  /\ \E ms \in CtorTimeouts : cacheManager = NewCacheManager(ms)
  /\ now = 0
  /\ opCount = 0
  /\ lastOp = [op |-> "new"]
  /\ result = None
  /\ text = <<>>
  /\ parseResult = None
  /\ workspace = <<>>
  /\ provider = Null
  /\ runs = <<>>
  /\ mtime = <<>>
  /\ changes = <<>>

\* Time passes between two calls of the store
Tick ==
  /\ 0 < opCount
  /\ opCount < MaxOps
  /\ \E d \in TickSteps :
       /\ now + d <= MaxTicks * 100
       /\ now' = now + d
  /\ UNCHANGED <<cacheManager, opCount, lastOp, result, parserVars, providerVars>>

\* One call of a store operation
Called(op) ==
  /\ opCount < MaxOps
  /\ opCount' = opCount + 1
  /\ lastOp' = op
  /\ UNCHANGED <<now, parserVars, providerVars>>

CacheFactory(f) ==
  /\ Called([op |-> "cacheFactory", name |-> f.name])
  /\ cacheManager' = cacheFactory(cacheManager, f, now)
  /\ result' = None

CacheTrait(tr) ==
  /\ Called([op |-> "cacheTrait", name |-> getKey(tr)])
  /\ cacheManager' = cacheTrait(cacheManager, tr, now)
  /\ result' = None

\* lastOp also keeps what the call found: whether the name was in the Map
GetFactory(n) ==
  /\ Called([op |-> "getFactory", name |-> n,
             hit |-> MapHas(cacheManager.factoryCache, n)])
  /\ cacheManager' = getFactoryStore(cacheManager, n, now)
  /\ result' = getFactoryValue(cacheManager, n, now)

GetTrait(fn, tn) ==
  /\ Called([op |-> "getTrait", name |-> fn \o ":" \o tn,
             hit |-> MapHas(cacheManager.traitCache, fn \o ":" \o tn)])
  /\ cacheManager' = getTraitStore(cacheManager, fn, tn, now)
  /\ result' = getTraitValue(cacheManager, fn, tn, now)

\* lastOp also keeps what the call found: the cached traits of factory n, and
\* the other cached factories and traits
RemoveFactory(n) ==
  /\ Called([op |-> "removeFactory", name |-> n,
             cascade |-> {e.key : e \in {x \in cacheManager.traitCache :
                                           x.trait.factoryName = n}},
             kept |-> {e.key : e \in {x \in cacheManager.factoryCache :
                                        x.key # n}}
                        \cup {e.key : e \in {x \in cacheManager.traitCache :
                                               x.trait.factoryName # n}}])
  /\ cacheManager' = removeFactory(cacheManager, n)
  /\ result' = None

RemoveFileFromCache(u) ==
  /\ Called([op |-> "removeFileFromCache", name |-> u])
  /\ cacheManager' = removeFileFromCache(cacheManager, u)
  /\ result' = None

\* lastOp also keeps what the call found: the names the index listed under u
\* that the new lists do not hold, and the cached entities of other files
UpdateFileCache(u, fs, ts) ==
  /\ Called([op |-> "updateFileCache", name |-> u,
             factories |-> fs, traits |-> ts,
             stale |-> IF MapHas(cacheManager.fileCache, u)
                       THEN (MapGet(cacheManager.fileCache, u).factories
                               \ {f.name : f \in Range(fs)})
                            \cup (MapGet(cacheManager.fileCache, u).traits
                                    \ {getKey(tr) : tr \in Range(ts)})
                       ELSE {}])
  /\ cacheManager' = updateFileCache(cacheManager, u, fs, ts, now)
  /\ result' = None

ClearFactoryCache ==
  /\ Called([op |-> "clearFactoryCache"])
  /\ cacheManager' = clearFactoryCache(cacheManager)
  /\ result' = None

ClearTraitCache ==
  /\ Called([op |-> "clearTraitCache"])
  /\ cacheManager' = clearTraitCache(cacheManager)
  /\ result' = None

\* lastOp also keeps what the call found: the statistics of the store
ClearAll ==
  /\ Called([op |-> "clearAll", before |-> getCacheStats(cacheManager)])
  /\ cacheManager' = clearAll(cacheManager)
  /\ result' = None

CleanupExpiredEntries ==
  /\ Called([op |-> "cleanupExpiredEntries"])
  /\ cacheManager' = cleanupExpiredEntries(cacheManager, now)
  /\ result' = None

NextCache ==
  \/ Tick
  \/ \E f \in FactoryInputs : CacheFactory(f)
  \/ \E tr \in TraitInputs : CacheTrait(tr)
  \/ \E n \in FactoryNames : GetFactory(n)
  \/ \E fn \in FactoryNames, tn \in TraitNames : GetTrait(fn, tn)
  \/ \E n \in FactoryNames : RemoveFactory(n)
  \/ \E u \in Uris : RemoveFileFromCache(u)
  \/ \E u \in Uris : \E fs \in FileFactoryLists(u), ts \in FileTraitLists(u) :
       UpdateFileCache(u, fs, ts)
  \/ ClearFactoryCache
  \/ ClearTraitCache
  \/ ClearAll
  \/ CleanupExpiredEntries

SpecCache == InitCache /\ [][NextCache]_vars

-----------------------------------------------------------------------------
(* Claims about the store                                                  *)

\* The step is one call of the store operation `op` with argument `name`
Did(op, name) ==
  /\ opCount' = opCount + 1
  /\ lastOp'.op = op
  /\ lastOp'.name = name

FactoryEntry(f, t) == [key |-> f.name, factory |-> f, timestamp |-> t]

\* C1: after cacheFactory(f) the entry of f.name holds f with the time of the
\* call; getFactory(name) returns the cached factory and leaves the store as
\* it is while the entry's age is at most the TTL, and once the age exceeds
\* the TTL it returns undefined and deletes the entry, so that factoryCount
\* drops by one.
C1_ExpiryOnLookup ==
  [][ /\ \A f \in FactoryInputs :
           CacheFactory(f) => FactoryEntry(f, now) \in cacheManager'.factoryCache
      /\ \A n \in FactoryNames :
           Did("getFactory", n) =>
             \A e \in cacheManager.factoryCache :
               e.key = n =>
                 IF now - e.timestamp <= cacheManager.cacheTimeout
                 THEN /\ result' = Some(e.factory)
                      /\ cacheManager' = cacheManager
                 ELSE /\ result' = None
                      /\ e \notin cacheManager'.factoryCache
                      /\ getCacheStats(cacheManager').factoryCount
                           = getCacheStats(cacheManager).factoryCount - 1
    ]_vars

\* C1 witness: a lookup found the name in the Map, past its TTL, and
\* returned undefined
C1_Witness ==
  /\ lastOp.op = "getFactory"
  /\ lastOp.hit
  /\ result = None
  /\ ~MapHas(cacheManager.factoryCache, lastOp.name)

\* The names the store attributes to file u: those its index entry lists and
\* those of the cached entities located in u
AttributedFactories(cm, u) ==
  {e.key : e \in {x \in cm.factoryCache : x.factory.location.uri = u}}
    \cup (IF MapHas(cm.fileCache, u) THEN MapGet(cm.fileCache, u).factories ELSE {})

AttributedTraits(cm, u) ==
  {e.key : e \in {x \in cm.traitCache : x.trait.location.uri = u}}
    \cup (IF MapHas(cm.fileCache, u) THEN MapGet(cm.fileCache, u).traits ELSE {})

\* C2: after updateFileCache(u, fs, ts) no factory and no trait that was
\* attributed to u before the call and is not in fs / ts is in the store.
C2_NoStaleEntries ==
  [][ \A u \in Uris :
        Did("updateFileCache", u) =>
          /\ \A n \in AttributedFactories(cacheManager, u)
                        \ {f.name : f \in Range(lastOp'.factories)} :
               /\ ~MapHas(cacheManager'.factoryCache, n)
               /\ getFactoryValue(cacheManager', n, now) = None
          /\ \A k \in AttributedTraits(cacheManager, u)
                        \ {getKey(tr) : tr \in Range(lastOp'.traits)} :
               /\ ~MapHas(cacheManager'.traitCache, k)
               /\ \A fn \in FactoryNames, tn \in TraitNames :
                    fn \o ":" \o tn = k
                      => getTraitValue(cacheManager', fn, tn, now) = None
    ]_vars

\* C2 witness: an update found names listed under the file that the new
\* lists do not hold
C2_Witness ==
  /\ lastOp.op = "updateFileCache"
  /\ lastOp.stale # {}

\* C3, as claimed: updateFileCache(u, ..) leaves every factory and trait
\* located in another file retrievable, with the same value.  The entities
\* the new lists name again are left out here: the call upserts those, and the
\* last upsert of a name wins.
C3_OtherFilesUnaffected ==
  [][ \A u \in Uris :
        Did("updateFileCache", u) =>
          /\ \A e \in cacheManager.factoryCache :
               (e.factory.location.uri # u
                  /\ e.key \notin {f.name : f \in Range(lastOp'.factories)}
                  /\ getFactoryValue(cacheManager, e.key, now) = Some(e.factory))
               => getFactoryValue(cacheManager', e.key, now) = Some(e.factory)
          /\ \A e \in cacheManager.traitCache :
               (e.trait.location.uri # u
                  /\ e.key \notin {getKey(tr) : tr \in Range(lastOp'.traits)}
                  /\ getTraitValue(cacheManager, e.trait.factoryName,
                                   e.trait.name, now) = Some(e.trait))
               => getTraitValue(cacheManager', e.trait.factoryName,
                                e.trait.name, now) = Some(e.trait)
    ]_vars

\* C4, as claimed: every name a file's index entry lists is in the value
\* cache, and every cached entity is listed under the file of its location.
C4_IndexConsistent ==
  /\ \A fi \in cacheManager.fileCache :
       /\ \A n \in fi.factories : MapHas(cacheManager.factoryCache, n)
       /\ \A k \in fi.traits : MapHas(cacheManager.traitCache, k)
  /\ \A e \in cacheManager.factoryCache :
       /\ MapHas(cacheManager.fileCache, e.factory.location.uri)
       /\ e.key \in MapGet(cacheManager.fileCache, e.factory.location.uri).factories
  /\ \A e \in cacheManager.traitCache :
       /\ MapHas(cacheManager.fileCache, e.trait.location.uri)
       /\ e.key \in MapGet(cacheManager.fileCache, e.trait.location.uri).traits

\* C5: removeFactory(n) deletes the factory n and every cached trait whose
\* factoryName is n; every other factory and every trait of another factory
\* stays, with its value and its timestamp.
C5_RemoveFactoryCascade ==
  [][ \A n \in FactoryNames :
        Did("removeFactory", n) =>
          /\ cacheManager'.factoryCache
               = {e \in cacheManager.factoryCache : e.factory.name # n}
          /\ cacheManager'.traitCache
               = {e \in cacheManager.traitCache : e.trait.factoryName # n}
    ]_vars

\* C5 witness: a removal found traits of the factory and other entities
C5_Witness ==
  /\ lastOp.op = "removeFactory"
  /\ lastOp.cascade # {}
  /\ lastOp.kept # {}
  /\ \A k \in lastOp.cascade : ~MapHas(cacheManager.traitCache, k)
  /\ \A k \in lastOp.kept :
       MapHas(cacheManager.factoryCache, k) \/ MapHas(cacheManager.traitCache, k)

\* The operations that remove no factory entry, expiry aside
KeepsFactories ==
  /\ opCount' = opCount + 1
  /\ lastOp'.op \in {"cacheFactory", "cacheTrait", "getFactory", "getTrait",
                     "clearTraitCache"}

\* C6: the store holds at most one factory per name, under that name;
\* cacheFactory(f) puts f under f.name whatever was there and whichever file
\* it came from; no later call but a removal or another cacheFactory of the
\* name changes the entry; and getFactory(name) within the TTL returns it.
C6_LastUpsertWins ==
  /\ [](\A e1 \in cacheManager.factoryCache :
          /\ e1.key = e1.factory.name
          /\ \A e2 \in cacheManager.factoryCache : e1.key = e2.key => e1 = e2)
  /\ [][ /\ \A f \in FactoryInputs :
              CacheFactory(f) =>
                /\ MapGet(cacheManager'.factoryCache, f.name) = FactoryEntry(f, now)
                /\ getFactoryValue(cacheManager', f.name, now) = Some(f)
         /\ \A e \in cacheManager.factoryCache :
              (/\ KeepsFactories
               /\ ~(lastOp'.op = "cacheFactory" /\ lastOp'.name = e.key)
               /\ now - e.timestamp <= cacheManager.cacheTimeout)
              => /\ e \in cacheManager'.factoryCache
                 /\ (Did("getFactory", e.key) => result' = Some(e.factory))
       ]_vars

\* C6 witness: a name cached from one file and then from the other is looked
\* up and the later factory comes back
C6_Witness ==
  /\ opCount = 3
  /\ lastOp.op = "getFactory"
  /\ \E e \in cacheManager.factoryCache :
       /\ e.key = lastOp.name
       /\ result = Some(e.factory)
       /\ \A u \in Uris :
            /\ MapHas(cacheManager.fileCache, u)
            /\ e.key \in MapGet(cacheManager.fileCache, u).factories

-----------------------------------------------------------------------------
(* regexPatterns and FactoryParser                                         *)
(*                                                                         *)
(* A text is a sequence of characters.  The words `factory`, `trait`,      *)
(* `do`, `end`, any other word (`name`) and the symbols `:a`, `:b`, `:t`   *)
(* count as one character each; the texts considered put white space       *)
(* between any two of them.  Offsets are 0-based, as in JavaScript.        *)

MaxLines == 5

Space == {" ", "\n"}
Symbols == {":a", ":b", ":t"}

\* The [a-zA-Z0-9_]+ after the colon of a symbol
NameOf(c) == CASE c = ":a" -> "a" [] c = ":b" -> "b" [] c = ":t" -> "t"

At(str, i) == str[i + 1]

\* String.substring(from, to)
Substring(str, from, to) == SubSeq(str, from + 1, to)

\* \s+ or \s* from offset i: the offset of the first character that is no
\* white space
RECURSIVE SkipSpace(_, _)
SkipSpace(str, i) ==
  IF i < Len(str) /\ At(str, i) \in Space THEN SkipSpace(str, i + 1) ELSE i

\* match[n] of a RegExp match: undefined for a group the pattern lacks
MatchGroup(match, n) ==
  IF n \in DOMAIN match.groups THEN match.groups[n] ELSE Undefined

\* /factory\s+:([a-zA-Z0-9_]+)\b/ matched at offset i: one capture group
FACTORY_DEFINITION_PATTERN(str, i) ==
  LET j == SkipSpace(str, i + 1) IN
  IF /\ i < Len(str)
     /\ At(str, i) = "factory"
     /\ j > i + 1
     /\ j < Len(str)
     /\ At(str, j) \in Symbols
  THEN Some([index |-> i, lastIndex |-> j + 1,
             all |-> Substring(str, i, j + 1),
             groups |-> <<NameOf(At(str, j))>>])
  ELSE None

\* /trait\s+:([a-zA-Z0-9_]+)\s+do/ matched at offset i
TRAIT_DEFINITION_PATTERN(str, i) ==
  LET j == SkipSpace(str, i + 1)
      d == SkipSpace(str, j + 1)
  IN
  IF /\ i < Len(str)
     /\ At(str, i) = "trait"
     /\ j > i + 1
     /\ j < Len(str)
     /\ At(str, j) \in Symbols
     /\ d > j + 1
     /\ d < Len(str)
     /\ At(str, d) = "do"
  THEN Some([index |-> i, lastIndex |-> d + 1,
             all |-> Substring(str, i, d + 1),
             groups |-> <<NameOf(At(str, j))>>])
  ELSE None

\* The lookahead (?=\n\s*(?:factory|end\s*$)) at offset p; without the m
\* flag, $ is the end of the input
BlockEndsAt(str, p) ==
  /\ p < Len(str)
  /\ At(str, p) = "\n"
  /\ \E q \in (p + 1)..(Len(str) - 1) :
       /\ \A k \in (p + 1)..(q - 1) : At(str, k) \in Space
       /\ \/ At(str, q) = "factory"
          \/ /\ At(str, q) = "end"
             /\ \A k \in (q + 1)..(Len(str) - 1) : At(str, k) \in Space

Min(S) == CHOOSE x \in S : \A y \in S : x <= y

\* A block pattern whose group 2 is greedy: it ends at the last offset where
\* the lookahead holds
FACTORY_BLOCK_PATTERN_Greedy(str, i) ==
  LET j == SkipSpace(str, i + 1)
      d == SkipSpace(str, j + 1)
      ends == {p \in (d + 1)..(Len(str) - 1) : BlockEndsAt(str, p)}
      last == CHOOSE p \in ends : \A q \in ends : q <= p
  IN
  IF /\ i < Len(str)
     /\ At(str, i) = "factory"
     /\ j > i + 1
     /\ j < Len(str)
     /\ At(str, j) \in Symbols
     /\ d > j + 1
     /\ d < Len(str)
     /\ At(str, d) = "do"
     /\ ends # {}
  THEN Some([index |-> i, lastIndex |-> last,
             all |-> Substring(str, i, last),
             groups |-> <<NameOf(At(str, j)), Substring(str, d + 1, last)>>])
  ELSE None

\* /factory\s+:([a-zA-Z0-9_]+)\s+do([\s\S]*?)(?=\n\s*(?:factory|end\s*$))/
\* matched at offset i: the lazy group 2 ends at the first offset where the
\* lookahead holds
FACTORY_BLOCK_PATTERN(str, i) ==
  LET j == SkipSpace(str, i + 1)
      d == SkipSpace(str, j + 1)
      ends == {p \in (d + 1)..(Len(str) - 1) : BlockEndsAt(str, p)}
  IN
  IF /\ i < Len(str)
     /\ At(str, i) = "factory"
     /\ j > i + 1
     /\ j < Len(str)
     /\ At(str, j) \in Symbols
     /\ d > j + 1
     /\ d < Len(str)
     /\ At(str, d) = "do"
     /\ ends # {}
  THEN Some([index |-> i, lastIndex |-> Min(ends),
             all |-> Substring(str, i, Min(ends)),
             groups |-> <<NameOf(At(str, j)), Substring(str, d + 1, Min(ends))>>])
  ELSE None

\* while ((match = regex.exec(str)) !== null): the matches of a global
\* pattern, each search starting at the lastIndex of the match before
RECURSIVE FactoryDefinitionMatches(_, _)
FactoryDefinitionMatches(str, lastIndex) ==
  IF lastIndex >= Len(str) THEN <<>>
  ELSE LET found == FACTORY_DEFINITION_PATTERN(str, lastIndex) IN
       IF found = None THEN FactoryDefinitionMatches(str, lastIndex + 1)
       ELSE LET match == CHOOSE m \in found : TRUE
            IN <<match>> \o FactoryDefinitionMatches(str, match.lastIndex)

RECURSIVE TraitDefinitionMatches(_, _)
TraitDefinitionMatches(str, lastIndex) ==
  IF lastIndex >= Len(str) THEN <<>>
  ELSE LET found == TRAIT_DEFINITION_PATTERN(str, lastIndex) IN
       IF found = None THEN TraitDefinitionMatches(str, lastIndex + 1)
       ELSE LET match == CHOOSE m \in found : TRUE
            IN <<match>> \o TraitDefinitionMatches(str, match.lastIndex)

RECURSIVE FactoryBlockMatches(_, _)
FactoryBlockMatches(str, lastIndex) ==
  IF lastIndex >= Len(str) THEN <<>>
  ELSE LET found == FACTORY_BLOCK_PATTERN(str, lastIndex) IN
       IF found = None THEN FactoryBlockMatches(str, lastIndex + 1)
       ELSE LET match == CHOOSE m \in found : TRUE
            IN <<match>> \o FactoryBlockMatches(str, match.lastIndex)

\* An indexOf that finds every needle at the start of the string
IndexOf_AtStart(str, needle) == 0

\* String.indexOf(needle): the first offset where needle occurs, or -1
IndexOf(str, needle) ==
  LET at == {k \in 0..(Len(str) - Len(needle)) :
               Substring(str, k, k + Len(needle)) = needle}
  IN IF at = {} THEN -1 ELSE Min(at)

\* calculateLineNumber(text, index): text.substring(0, index).split("\n")
\* has one piece more than there are newlines before index
calculateLineNumber(str, index) ==
  Cardinality({k \in 0..(index - 1) : k < Len(str) /\ At(str, k) = "\n"})

\* The body of the while loop of findFactoryDefinitions, over the matches
RECURSIVE FactoriesOfMatches(_, _, _)
FactoriesOfMatches(str, fileUri, matches) ==
  IF matches = <<>> THEN <<>>
  ELSE LET match == Head(matches)
           rest == FactoriesOfMatches(str, fileUri, Tail(matches))
       IN IF MatchGroup(match, 2) \in {Undefined, ""}
          THEN rest
          ELSE <<Factory(MatchGroup(match, 2),
                         Location(fileUri, calculateLineNumber(str, match.index)))>>
                 \o rest

findFactoryDefinitions(str, fileUri) ==
  FactoriesOfMatches(str, fileUri, FactoryDefinitionMatches(str, 0))

\* The inner while loop of findTraitDefinitions, over the trait matches of
\* one factory block
RECURSIVE TraitsOfMatches(_, _, _, _)
TraitsOfMatches(str, fileUri, factoryMatch, traitMatches) ==
  IF traitMatches = <<>> THEN <<>>
  ELSE LET traitMatch == Head(traitMatches)
           factoryHeaderLength == IndexOf(factoryMatch.all, factoryMatch.groups[2])
           traitIndex == factoryMatch.index + factoryHeaderLength + traitMatch.index
       IN <<Trait(traitMatch.groups[1],
                  Location(fileUri, calculateLineNumber(str, traitIndex)),
                  factoryMatch.groups[1])>>
            \o TraitsOfMatches(str, fileUri, factoryMatch, Tail(traitMatches))

\* The outer while loop of findTraitDefinitions, over the block matches
RECURSIVE TraitsOfBlocks(_, _, _)
TraitsOfBlocks(str, fileUri, factoryMatches) ==
  IF factoryMatches = <<>> THEN <<>>
  ELSE TraitsOfMatches(str, fileUri, Head(factoryMatches),
                       TraitDefinitionMatches(Head(factoryMatches).groups[2], 0))
         \o TraitsOfBlocks(str, fileUri, Tail(factoryMatches))

findTraitDefinitions(str, fileUri) ==
  TraitsOfBlocks(str, fileUri, FactoryBlockMatches(str, 0))

\* Factory.addTrait, hasTrait, getTrait, getTraitCount
addTrait(factory, trait) ==
  [factory EXCEPT !.traits = MapSet(@, trait.name, [key |-> trait.name, trait |-> trait])]

hasTrait(factory, traitName) == MapHas(factory.traits, traitName)

getTrait(factory, traitName) ==
  IF MapHas(factory.traits, traitName)
  THEN Some(MapGet(factory.traits, traitName).trait)
  ELSE None

getTraitCount(factory) == MapSize(factory.traits)

RECURSIVE AddTraits(_, _)
AddTraits(factory, traits) ==
  IF traits = <<>> THEN factory
  ELSE AddTraits(IF Head(traits).factoryName = factory.name
                 THEN addTrait(factory, Head(traits)) ELSE factory,
                 Tail(traits))

\* linkTraitsToFactories: factoryMap holds, for each name, the last factory
\* of the list with that name; each trait goes to the factory of the map
linkTraitsToFactories(factories, traits) ==
  [i \in DOMAIN factories |->
     IF \E k \in DOMAIN factories : k > i /\ factories[k].name = factories[i].name
     THEN factories[i]
     ELSE AddTraits(factories[i], traits)]

\* A parser that keeps its traits array from one call to the next
parseText_KeepTraits(str, fileUri) ==
  LET factories == findFactoryDefinitions(str, fileUri)
      kept == IF parseResult = None THEN <<>>
              ELSE (CHOOSE earlier \in parseResult : TRUE).traits
      traits == kept \o findTraitDefinitions(str, fileUri)
  IN [factories |-> linkTraitsToFactories(factories, traits), traits |-> traits]

parseText(str, fileUri) ==
  LET factories == findFactoryDefinitions(str, fileUri)
      traits == findTraitDefinitions(str, fileUri)
  IN [factories |-> linkTraitsToFactories(factories, traits), traits |-> traits]

-----------------------------------------------------------------------------
(* The parser at work: a file is written line by line, then parsed         *)

FactoryHeader(c) == <<"factory", " ", c, " ", "do">>
TraitHeader(c) == <<" ", "trait", " ", c, " ", "do">>
EndLine == <<"end">>
OtherLine == <<" ", "name">>

FileLines ==
  {FactoryHeader(":a"), FactoryHeader(":b"), TraitHeader(":t"), EndLine, OtherLine}

LineCount(str) ==
  IF str = <<>> THEN 0 ELSE 1 + Cardinality({k \in DOMAIN str : str[k] = "\n"})

InitParse ==
  /\ text = <<>>
  /\ parseResult = None
  /\ cacheManager = NewCacheManager(0)
  /\ now = 0
  /\ opCount = 0
  /\ lastOp = [op |-> "new"]
  /\ result = None
  /\ workspace = <<>>
  /\ provider = Null
  /\ runs = <<>>
  /\ mtime = <<>>
  /\ changes = <<>>

WriteLine(line) ==
  /\ parseResult = None
  /\ LineCount(text) < MaxLines
  /\ text' = IF text = <<>> THEN line ELSE text \o <<"\n">> \o line
  /\ UNCHANGED <<parseResult, cacheVars, providerVars>>

ParseText(fileUri) ==
  /\ parseResult = None
  /\ parseResult' = Some(parseText(text, fileUri))
  /\ UNCHANGED <<text, cacheVars, providerVars>>

NextParse ==
  \/ \E line \in FileLines : WriteLine(line)
  \/ \E fileUri \in Uris : ParseText(fileUri)

SpecParse == InitParse /\ [][NextParse]_vars

-----------------------------------------------------------------------------
(* Claims about the parser                                                 *)

\* The lines of a text
RECURSIVE SplitLines(_)
SplitLines(str) ==
  IF \A k \in DOMAIN str : str[k] # "\n" THEN <<str>>
  ELSE LET k == Min({i \in DOMAIN str : str[i] = "\n"})
       IN <<SubSeq(str, 1, k - 1)>> \o SplitLines(SubSeq(str, k + 1, Len(str)))

IsFactoryHeader(line) == line \in {FactoryHeader(c) : c \in Symbols}
IsTraitHeader(line) == line \in {TraitHeader(c) : c \in Symbols}

\* How many blocks are open after the first n lines: 0 outside a factory,
\* 1 in a factory block, 2 in a trait block of a factory; -1 if the lines are
\* no sequence of `factory :x do ... end` blocks, one after the other
RECURSIVE Depth(_, _)
Depth(lines, n) ==
  IF n = 0 THEN 0
  ELSE LET d == Depth(lines, n - 1)
           line == lines[n]
       IN CASE d = -1 -> -1
            [] d # -1 /\ IsFactoryHeader(line) -> IF d = 0 THEN 1 ELSE -1
            [] d # -1 /\ IsTraitHeader(line) -> IF d = 1 THEN 2 ELSE -1
            [] d # -1 /\ line = EndLine -> IF d > 0 THEN d - 1 ELSE -1
            [] OTHER -> d

\* The factory headers from line n on, in document order: name and 0-based line
RECURSIVE HeadersFrom(_, _)
HeadersFrom(lines, n) ==
  IF n > Len(lines) THEN <<>>
  ELSE (IF IsFactoryHeader(lines[n])
        THEN <<[name |-> NameOf(lines[n][3]), line |-> n - 1]>>
        ELSE <<>>) \o HeadersFrom(lines, n + 1)

\* Well-formed blocks with distinct names
WellFormed(str) ==
  LET lines == SplitLines(str)
      headers == HeadersFrom(lines, 1)
  IN /\ str # <<>>
     /\ Depth(lines, Len(lines)) = 0
     /\ \A i, k \in DOMAIN headers : headers[i].name = headers[k].name => i = k

\* C9, as claimed: for a text of N well-formed, distinctly named factory
\* blocks parseText returns exactly N factories, in document order, each with
\* the name of its header and the 0-based line of its header.
C9_FactoriesInDocumentOrder ==
  \A r \in parseResult :
    WellFormed(text) =>
      [i \in DOMAIN r.factories |->
         [name |-> r.factories[i].name, line |-> r.factories[i].location.line]]
        = HeadersFrom(SplitLines(text), 1)

\* The name of the factory whose block holds line n (1-based)
EnclosingFactory(lines, n) ==
  LET before == {k \in 1..(n - 1) : IsFactoryHeader(lines[k])}
  IN NameOf(lines[CHOOSE k \in before : \A k2 \in before : k2 <= k][3])

\* C10, as claimed: for every trait header in a factory block of a
\* well-formed text, the trait parseText returns for it has the name of the
\* enclosing factory as factoryName, and in the result that factory has the
\* trait: hasTrait(name) holds and getTrait(name).factoryName is its name.
C10_TraitsLinked ==
  \A r \in parseResult :
    WellFormed(text) =>
      LET lines == SplitLines(text) IN
      \A n \in DOMAIN lines :
        IsTraitHeader(lines[n]) =>
          \A i \in DOMAIN r.traits :
            r.traits[i].location.line = n - 1 =>
              LET x == EnclosingFactory(lines, n)
                  tn == r.traits[i].name
              IN /\ r.traits[i].factoryName = x
                 /\ \E k \in DOMAIN r.factories :
                      /\ r.factories[k].name = x
                      /\ hasTrait(r.factories[k], tn)
                      /\ \A tr \in getTrait(r.factories[k], tn) : tr.factoryName = x

-----------------------------------------------------------------------------
(* FileSearcher, FactoryParser.parseMultipleFiles and FactoryLinkProvider  *)

MaxRuns == 2

\* defaults: FACTORY_FILE_PRIORITY_ORDER
FACTORY_FILE_PRIORITY_ORDER == <<"spec/factories", "test/factories", "factories">>

\* String.includes
Includes(str, part) ==
  \E i \in 1..(Len(str) - Len(part) + 1) : SubSeq(str, i, i + Len(part) - 1) = part

\* normalizePath: every backslash becomes a slash
RECURSIVE normalizePath(_)
normalizePath(inputPath) ==
  IF inputPath = "" THEN ""
  ELSE (IF SubSeq(inputPath, 1, 1) = "\\" THEN "/" ELSE SubSeq(inputPath, 1, 1))
         \o normalizePath(SubSeq(inputPath, 2, Len(inputPath)))

\* getFilePriority: the index of the first pattern the path includes
getFilePriority(file, priorityPatterns) ==
  LET filePath == normalizePath(file)
      hits == {i \in DOMAIN priorityPatterns : Includes(filePath, priorityPatterns[i])}
  IN IF hits = {} THEN Len(priorityPatterns) ELSE Min(hits) - 1

\* Array.sort with the comparator aPriority - bPriority: a stable sort
RECURSIVE sortFilesByPriority(_, _)
sortFilesByPriority(files, priorityPatterns) ==
  IF files = <<>> THEN <<>>
  ELSE LET sorted == sortFilesByPriority(SubSeq(files, 1, Len(files) - 1), priorityPatterns)
           file == files[Len(files)]
           keep == {i \in DOMAIN sorted :
                      getFilePriority(sorted[i], priorityPatterns)
                        <= getFilePriority(file, priorityPatterns)}
           n == Cardinality(keep)
       IN SubSeq(sorted, 1, n) \o <<file>> \o SubSeq(sorted, n + 1, Len(sorted))

\* createBatches(items, batchSize)
RECURSIVE createBatches(_, _)
createBatches(items, batchSize) ==
  IF items = <<>> THEN <<>>
  ELSE IF Len(items) <= batchSize THEN <<items>>
  ELSE <<SubSeq(items, 1, batchSize)>>
         \o createBatches(SubSeq(items, batchSize + 1, Len(items)), batchSize)

\* setBatchSize(batchSize): between 1 and 50
setBatchSize(batchSize) ==
  LET atLeast == IF batchSize > 1 THEN batchSize ELSE 1
  IN IF atLeast < 50 THEN atLeast ELSE 50

\* ConfigurationManager.getCacheTimeout: seconds, at least 10
getCacheTimeout(configured) == IF configured > 10 THEN configured ELSE 10

\* A parseFile whose failure is not caught: the parse result all the same
parseFile_IgnoreFailure(files, fileUri, ok) == parseText(files[fileUri], fileUri)

\* parseFile(fileUri): the parse of the content read, or the default of
\* safeFileOperation when the read fails
parseFile(files, fileUri, ok) ==
  IF ok THEN parseText(files[fileUri], fileUri)
  ELSE [factories |-> <<>>, traits |-> <<>>]

\* results.forEach of parseMultipleFiles: the results of one batch, merged
\* in the order of the batch
RECURSIVE MergeFactories(_, _, _)
MergeFactories(files, batch, failed) ==
  IF batch = <<>> THEN <<>>
  ELSE parseFile(files, Head(batch), Head(batch) \notin failed).factories
         \o MergeFactories(files, Tail(batch), failed)

RECURSIVE MergeTraits(_, _, _)
MergeTraits(files, batch, failed) ==
  IF batch = <<>> THEN <<>>
  ELSE parseFile(files, Head(batch), Head(batch) \notin failed).traits
         \o MergeTraits(files, Tail(batch), failed)

\* parseResult.factories.forEach of parseAndCacheFilesWithProgress
RECURSIVE CacheNewFactories(_, _, _)
CacheNewFactories(cm, factories, t) ==
  IF factories = <<>> THEN cm
  ELSE LET factory == Head(factories)
           looked == getFactoryStore(cm, factory.name, t)
       IN CacheNewFactories(
            IF getFactoryValue(cm, factory.name, t) = None
            THEN cacheFactory(looked, factory, t) ELSE looked,
            Tail(factories), t)

\* parseResult.traits.forEach of parseAndCacheFilesWithProgress
RECURSIVE CacheNewTraits(_, _, _)
CacheNewTraits(cm, traits, t) ==
  IF traits = <<>> THEN cm
  ELSE LET trait == Head(traits)
           looked == getTraitStore(cm, trait.factoryName, trait.name, t)
       IN CacheNewTraits(
            IF getTraitValue(cm, trait.factoryName, trait.name, t) = None
            THEN cacheTrait(looked, trait, t) ELSE looked,
            Tail(traits), t)

\* A call of initializeFactoryFiles that passed the guard, awaiting
\* searchFactoryFiles
NewRun ==
  [pc |-> "search", sortedFiles |-> <<>>, batchSize |-> 0, batches |-> <<>>,
   batch |-> 0, started |-> {}, completed |-> {}, failed |-> {},
   allFactories |-> <<>>, allTraits |-> <<>>, awaits |-> 0, waiter |-> Null]

\* A loop that maps every file of every batch to safeParseFile at once
StartBatch_All(run, k) == Range(run.sortedFiles)

\* batch.map((uri) => this.safeParseFile(uri)) for the k-th batch: the reads
\* it starts
StartBatch(run, k) == Range(run.batches[k])

\* initializeFactoryFiles up to its first await, on the state
\* st = [provider, cm, runs]
initializeFactoryFiles(st) ==
  IF st.cm.isInitialized \/ st.provider.isInitializing
  THEN st
  ELSE [st EXCEPT !.provider.isInitializing = TRUE,
                  !.runs = Append(@, NewRun)]

\* An asynchronous start that sets the promise and starts no run
initializeFactoryFilesAsync_NoRun(st) ==
  IF ~st.provider.initializationPromise /\ ~st.cm.isInitialized
  THEN [st EXCEPT !.provider.initializationPromise = TRUE]
  ELSE st

initializeFactoryFilesAsync(st) ==
  IF ~st.provider.initializationPromise /\ ~st.cm.isInitialized
  THEN [initializeFactoryFiles(st) EXCEPT !.provider.initializationPromise = TRUE]
  ELSE st

\* Whether the call would start a run
Starts(st) == Len(st.runs) > Len(runs)

State == [provider |-> provider, cm |-> cacheManager, runs |-> runs]

Becomes(st) ==
  /\ Starts(st) => Len(runs) < MaxRuns
  /\ provider' = st.provider
  /\ cacheManager' = st.cm
  /\ runs' = st.runs

\* The files of the workspace
JoinLines(lines) ==
  IF Len(lines) = 1 THEN lines[1]
  ELSE lines[1] \o <<"\n">> \o
       (IF Len(lines) = 2 THEN lines[2]
        ELSE lines[2] \o <<"\n">> \o
             (IF Len(lines) = 3 THEN lines[3]
              ELSE lines[3] \o <<"\n">> \o lines[4]))

FileTexts ==
  {JoinLines(<<FactoryHeader(":a"), TraitHeader(":t"), EndLine, EndLine>>),
   JoinLines(<<FactoryHeader(":b"), TraitHeader(":t"), EndLine, EndLine>>)}

BatchSizes == {1, 2}
ConfiguredTimeouts == {5, 60}

\* The state after `new FactoryLinkProvider()`
InitProvider ==
  /\ workspace \in [Uris -> FileTexts]
  /\ \E batchSize \in BatchSizes, autoInitialize \in BOOLEAN :
       LET st == [provider |-> [isInitializing |-> FALSE,
                                initializationPromise |-> FALSE,
                                batchSize |-> batchSize],
                  cm |-> NewCacheManager(0),
                  runs |-> <<>>]
           after == IF autoInitialize THEN initializeFactoryFilesAsync(st) ELSE st
       IN /\ provider = after.provider
          /\ cacheManager = after.cm
          /\ runs = after.runs
  /\ mtime = <<>>
  /\ changes = <<>>
  /\ now = 0
  /\ opCount = 0
  /\ lastOp = [op |-> "new"]
  /\ result = None
  /\ text = <<>>
  /\ parseResult = None

Event(op) ==
  /\ lastOp' = op
  /\ UNCHANGED <<now, opCount, parserVars, workspace, mtime, changes>>

\* The orders in which findFiles may list the files
SearchResults ==
  {files \in [1..Cardinality(Uris) -> Uris] :
     \A i, k \in 1..Cardinality(Uris) : files[i] = files[k] => i = k}

\* searchFactoryFiles resolves: the run sorts the files, clears the store
\* and starts reading the first batch
SearchResolved(r, factoryFiles) ==
  /\ r \in DOMAIN runs
  /\ runs[r].pc = "search"
  /\ LET sortedFiles == sortFilesByPriority(factoryFiles, FACTORY_FILE_PRIORITY_ORDER)
         called == [runs[r] EXCEPT
                      !.pc = IF sortedFiles = <<>> THEN "finalize" ELSE "parse",
                      !.sortedFiles = sortedFiles,
                      !.batchSize = provider.batchSize,
                      !.batches = createBatches(sortedFiles, provider.batchSize),
                      !.batch = 1]
     IN runs' = [runs EXCEPT ![r] =
                   IF sortedFiles = <<>> THEN called
                   ELSE [called EXCEPT !.started = StartBatch(called, 1)]]
  /\ cacheManager' = clearAll(cacheManager)
  /\ result' = None
  /\ Event([op |-> "searchResolved", run |-> r])
  /\ UNCHANGED provider

\* One readFile in flight resolves or fails; with the last one of the
\* current batch Promise.all resolves, the results are merged and the next
\* batch starts
ReadResolved(r, fileUri, ok) ==
  /\ r \in DOMAIN runs
  /\ runs[r].pc = "parse"
  /\ fileUri \in runs[r].started \ runs[r].completed
  /\ LET run == runs[r]
         batch == run.batches[run.batch]
         completed == run.completed \cup {fileUri}
         failed == IF ok THEN run.failed ELSE run.failed \cup {fileUri}
     IN runs' = [runs EXCEPT ![r] =
          IF ~(Range(batch) \subseteq completed)
          THEN [run EXCEPT !.completed = completed, !.failed = failed]
          ELSE [run EXCEPT
                  !.completed = completed,
                  !.failed = failed,
                  !.allFactories = @ \o MergeFactories(workspace, batch, failed),
                  !.allTraits = @ \o MergeTraits(workspace, batch, failed),
                  !.batch = @ + 1,
                  !.started = IF run.batch = Len(run.batches) THEN @
                              ELSE @ \cup StartBatch(run, run.batch + 1),
                  !.pc = IF run.batch = Len(run.batches) THEN "cache" ELSE "parse"]]
  /\ result' = None
  /\ Event([op |-> "readResolved", run |-> r])
  /\ UNCHANGED <<provider, cacheManager>>

\* parseMultipleFiles has resolved: the run caches what is not cached yet
CacheResults(r) ==
  /\ r \in DOMAIN runs
  /\ runs[r].pc = "cache"
  /\ cacheManager' =
       CacheNewTraits(CacheNewFactories(cacheManager, runs[r].allFactories, now),
                      runs[r].allTraits, now)
  /\ runs' = [runs EXCEPT ![r] = [@ EXCEPT !.pc = "finalize"]]
  /\ result' = None
  /\ Event([op |-> "cacheResults", run |-> r])
  /\ UNCHANGED provider

\* parseAndCacheFilesWithProgress has resolved: setInitialized(true)
Finalize(r) ==
  /\ r \in DOMAIN runs
  /\ runs[r].pc = "finalize"
  /\ cacheManager' = setInitialized(cacheManager, TRUE)
  /\ runs' = [runs EXCEPT ![r] = [@ EXCEPT !.pc = "finally"]]
  /\ result' = None
  /\ Event([op |-> "finalize", run |-> r])
  /\ UNCHANGED provider

\* The search phase throws (getFactoryPaths, the RelativePattern of
\* searchFactoryFiles, withProgress): the catch block reports the error and
\* awaits the answer of the user to the error message
SearchFailed(r) ==
  /\ r \in DOMAIN runs
  /\ runs[r].pc = "search"
  /\ runs' = [runs EXCEPT ![r] = [@ EXCEPT !.pc = "catch"]]
  /\ result' = None
  /\ Event([op |-> "searchFailed", run |-> r])
  /\ UNCHANGED <<provider, cacheManager>>

\* The user answers the error message.  With "Retry", notifyUser awaits
\* retry(), which is initializeFactoryFiles(): the run it starts, if it passes
\* the guard.
ErrorAnswered(r, retry) ==
  /\ r \in DOMAIN runs
  /\ runs[r].pc = "catch"
  /\ LET st == IF retry THEN initializeFactoryFiles(State) ELSE State
     IN Becomes([st EXCEPT
                   !.runs[r] = [@ EXCEPT
                      !.pc = IF Starts(st) THEN "retry" ELSE "failed",
                      !.awaits = IF Starts(st) THEN Len(st.runs) ELSE 0]])
  /\ result' = None
  /\ Event([op |-> "errorAnswered", run |-> r])

\* A lookup that answers for a factory the store does not hold with a
\* location of no file
getFactoryFileLocation_Placeholder(cm, factoryName, t) ==
  LET found == getFactoryValue(cm, factoryName, t)
  IN IF found = None THEN Some([uri |-> Undefined, lineNumber |-> 0])
     ELSE {[uri |-> factory.location.uri, lineNumber |-> factory.location.line] :
             factory \in found}

\* getFactoryFileLocation(factoryName): the value returned; the store it
\* leaves is that of getFactory
getFactoryFileLocation(cm, factoryName, t) ==
  {[uri |-> factory.location.uri, lineNumber |-> factory.location.line] :
     factory \in getFactoryValue(cm, factoryName, t)}

\* findFactoryFile after its await: factoryInfo?.uri of the lookup
findFactoryFile(cm, factoryName, t) ==
  {factoryInfo.uri : factoryInfo \in getFactoryFileLocation(cm, factoryName, t)}

\* withProgress has resolved, or logError in the catch block has: the finally
\* block.  The promise of the run resolves, and the findFactoryFile that
\* awaits it looks its factory up.  lastOp also keeps how the run ended and
\* the name looked up.
Finally(r) ==
  /\ r \in DOMAIN runs
  /\ IF runs[r].pc = "retry" THEN runs[runs[r].awaits].pc = "done"
     ELSE runs[r].pc \in {"finally", "failed"}
  /\ provider' = [provider EXCEPT !.isInitializing = FALSE,
                                  !.initializationPromise = FALSE]
  /\ runs' = [runs EXCEPT ![r] = [NewRun EXCEPT !.pc = "done"]]
  /\ IF runs[r].waiter = Null
     THEN /\ result' = None
          /\ UNCHANGED cacheManager
     ELSE /\ result' = findFactoryFile(cacheManager, runs[r].waiter, now)
          /\ cacheManager' = getFactoryStore(cacheManager, runs[r].waiter, now)
  /\ Event([op |-> "finally", run |-> r, failed |-> runs[r].pc # "finally",
            lookedUp |-> runs[r].waiter])

\* ---------------------------------------------------------------------------
\* Call sites of a document: getFactoryCallPattern and TRAIT_REFERENCE_PATTERN.
\* A document is a text of the same kind as a factory file; its characters
\* are the method names, "(", ")", ",", the symbols, a number and white space.
\* ---------------------------------------------------------------------------

SUPPORTED_FACTORY_METHODS ==
  {"create", "create_list", "build", "build_list", "build_stubbed",
   "build_stubbed_list"}

Max(S) == CHOOSE x \in S : \A y \in S : x >= y

\* (:[a-zA-Z0-9_]+)(?:\s*,\s*(:[a-zA-Z0-9_]+))* from the symbol at offset i:
\* the offsets behind the first symbol, behind the second, ..., for as long
\* as a comma and a further symbol follow
RECURSIVE SymbolListEnds(_, _)
SymbolListEnds(str, i) ==
  LET q == SkipSpace(str, i + 1)
      s == SkipSpace(str, q + 1)
  IN IF /\ q < Len(str) /\ At(str, q) = ","
        /\ s < Len(str) /\ At(str, s) \in Symbols
     THEN <<i + 1>> \o SymbolListEnds(str, s)
     ELSE <<i + 1>>

\* \s*(?:,\s*[^)]*)?(?:\)|\n|$) from offset e: the offset behind the match,
\* or -1. The greedy \s* and [^)]* run as far as they can; where neither
\* the tail nor the terminator follows, \s* gives back white space up to its
\* last newline, which then is the terminator
CallTail(str, e) ==
  LET q == SkipSpace(str, e)
      close == {r \in (q + 1)..(Len(str) - 1) : At(str, r) = ")"}
      newlines == {r \in e..(q - 1) : At(str, r) = "\n"}
  IN IF q < Len(str) /\ At(str, q) = ","
     THEN IF close = {} THEN Len(str) ELSE Min(close) + 1
     ELSE IF q = Len(str) THEN q
     ELSE IF At(str, q) = ")" THEN q + 1
     ELSE IF newlines # {} THEN Max(newlines) + 1
     ELSE -1

\* getFactoryCallPattern() matched at offset i:
\* (?:methods)\s*(?:\(\s*)?((:sym)(?:\s*,\s*(:sym))*)\s*(?:,\s*[^)]*)?(?:\)|\n|$)
\* The symbol list is taken as long as possible and shortened from the right
\* while the rest of the pattern does not match behind it
getFactoryCallPattern(str, i) ==
  LET j == SkipSpace(str, i + 1)
      g == IF j < Len(str) /\ At(str, j) = "(" THEN SkipSpace(str, j + 1) ELSE j
  IN IF /\ i < Len(str)
        /\ At(str, i) \in SUPPORTED_FACTORY_METHODS
        /\ g < Len(str)
        /\ At(str, g) \in Symbols
     THEN LET ends == SymbolListEnds(str, g)
              fits == {k \in DOMAIN ends : CallTail(str, ends[k]) # -1}
          IN IF fits = {} THEN None
             ELSE LET e == ends[Max(fits)]
                      last == CallTail(str, e)
                  IN Some([index |-> i,
                           lastIndex |-> last,
                           all |-> Substring(str, i, last),
                           groups |-> <<Substring(str, g, e),
                                        <<At(str, g)>>,
                                        IF Max(fits) = 1 THEN Undefined
                                        ELSE <<At(str, e - 1)>>>>])
     ELSE None

\* The matches of the loop `while ((match = factoryCallRegex.exec(text)))`
\* from lastIndex on, in the order exec returns them
RECURSIVE FactoryCallMatches(_, _)
FactoryCallMatches(str, lastIndex) ==
  LET at == {i \in lastIndex..(Len(str) - 1) :
               getFactoryCallPattern(str, i) # None}
  IN IF at = {} THEN <<>>
     ELSE LET match == CHOOSE m \in getFactoryCallPattern(str, Min(at)) : TRUE
          IN <<match>> \o FactoryCallMatches(str, match.lastIndex)

\* /:([a-zA-Z0-9_]+)/g over a string: the matches in order, with their index
\* and group 1
RECURSIVE TRAIT_REFERENCE_PATTERN(_, _)
TRAIT_REFERENCE_PATTERN(str, lastIndex) ==
  LET at == {i \in lastIndex..(Len(str) - 1) : At(str, i) \in Symbols}
  IN IF at = {} THEN <<>>
     ELSE <<[index |-> Min(at), lastIndex |-> Min(at) + 1,
             all |-> <<At(str, Min(at))>>,
             groups |-> <<NameOf(At(str, Min(at)))>>]>>
          \o TRAIT_REFERENCE_PATTERN(str, Min(at) + 1)

\* A lookup that finds the trait under whichever factory defines it
getTraitLocation_AnyFactory(cm, factoryName, traitName, t) ==
  {[uri |-> trait.location.uri, lineNumber |-> trait.location.line,
    factoryName |-> trait.factoryName] :
     trait \in UNION {getTraitValue(cm, fn, traitName, t) : fn \in FactoryNames}}

\* getTraitLocation(factoryName, traitName): the value returned; the store it
\* leaves is that of getTrait
getTraitLocation(cm, factoryName, traitName, t) ==
  {[uri |-> trait.location.uri, lineNumber |-> trait.location.line,
    factoryName |-> trait.factoryName] :
     trait \in getTraitValue(cm, factoryName, traitName, t)}

\* new vscode.DocumentLink(range, target) and its tooltip: the range as its
\* two offsets, the target as the argument of the gotoLine command, the
\* tooltip as the kind of definition and the names it tells
DocumentLink(start, end, info, tooltip) ==
  [range |-> <<start, end>>,
   target |-> [uri |-> info.uri, lineNumber |-> info.lineNumber],
   tooltip |-> tooltip]

\* The inner loop of provideDocumentLinks over the trait matches from the
\* k-th on: st = [cm, links]
RECURSIVE LinkTraits(_, _, _, _, _)
LinkTraits(st, match, traitMatches, k, t) ==
  IF k > Len(traitMatches) THEN st
  ELSE LET fullMatch == match.groups[1]
           factoryName == NameOf(match.groups[2][1])
           traitMatch == traitMatches[k]
           traitName == traitMatch.groups[1]
           traitSymbolStart ==
             match.index + IndexOf(match.all, fullMatch) + traitMatch.index
           traitSymbolEnd == traitSymbolStart + Len(traitMatch.all)
           traitInfo == getTraitLocation(st.cm, factoryName, traitName, t)
       IN LinkTraits(
            [cm |-> getTraitStore(st.cm, factoryName, traitName, t),
             links |-> st.links \o
               IF traitInfo = None THEN <<>>
               ELSE <<DocumentLink(traitSymbolStart, traitSymbolEnd,
                                   CHOOSE info \in traitInfo : TRUE,
                                   <<"trait", traitName, factoryName>>)>>],
            match, traitMatches, k + 1, t)

\* The outer loop of provideDocumentLinks over the call matches from the
\* k-th on: the factory link, then the trait links; the first match of
\* TRAIT_REFERENCE_PATTERN in match[1] is skipped
RECURSIVE LinkCalls(_, _, _, _)
LinkCalls(st, matches, k, t) ==
  IF k > Len(matches) THEN st
  ELSE LET match == matches[k]
           factoryNameMatch == match.groups[2]
           factoryName == NameOf(factoryNameMatch[1])
           factoryNameStart == match.index + IndexOf(match.all, factoryNameMatch)
           factoryNameEnd == factoryNameStart + Len(factoryNameMatch)
           factoryInfo == getFactoryFileLocation(st.cm, factoryName, t)
           linked ==
             [cm |-> getFactoryStore(st.cm, factoryName, t),
              links |-> st.links \o
                IF factoryInfo = None THEN <<>>
                ELSE <<DocumentLink(factoryNameStart, factoryNameEnd,
                                    CHOOSE info \in factoryInfo : TRUE,
                                    <<"factory", factoryName>>)>>]
       IN LinkCalls(
            LinkTraits(linked, match,
                       TRAIT_REFERENCE_PATTERN(match.groups[1], 0), 2, t),
            matches, k + 1, t)

\* The call sites of the documents: with and without parentheses, with a
\* trait behind the factory, with an argument that is no symbol
CallSites ==
  {<<"create", "(", ":a", ",", " ", ":t", ")">>,
   <<"create", "(", ":b", ")">>,
   <<"create_list", "(", ":a", ",", " ", "5", ",", " ", ":t", ")">>,
   <<"create", " ", ":a", ",", " ", "5">>}

\* The documents: one call site, or two on two lines
Documents ==
  CallSites \cup {first \o <<"\n">> \o second : first, second \in CallSites}

\* The matches of getFactoryCallPattern in each of the documents
FactoryCallTable ==
  [document \in Documents |-> FactoryCallMatches(document, 0)]

\* provideDocumentLinks(document) of an initialised provider: the links
\* returned and the store the lookups leave
provideDocumentLinks(cm, document, t) ==
  LinkCalls([cm |-> cm, links |-> <<>>], FactoryCallTable[document], 1, t)

\* provideDocumentLinks(document)
\* lastOp also keeps whether the call has started a run
ProvideDocumentLinks(document) ==
  /\ IF ~cacheManager.isInitialized
     THEN /\ Becomes(IF ~provider.initializationPromise /\ ~provider.isInitializing
                     THEN initializeFactoryFilesAsync(State) ELSE State)
          /\ result' = Some(<<>>)
     ELSE LET done == provideDocumentLinks(cacheManager, document, now)
          IN /\ cacheManager' = done.cm
             /\ result' = Some(done.links)
             /\ UNCHANGED <<provider, runs>>
  /\ Event([op |-> "provideDocumentLinks", document |-> document,
            started |-> Len(runs') > Len(runs)])

\* findFactoryFile(factoryName): the lookup at once when the store is
\* initialised; otherwise await initializeFactoryFiles(), which is the run the
\* call starts, or nothing to wait for when the call returns at its guard:
\* then the lookup follows at once.  lastOp keeps whether the lookup was made.
FindFactoryFile(factoryName) ==
  LET st == IF cacheManager.isInitialized THEN State
            ELSE initializeFactoryFiles(State)
  IN /\ IF Starts(st)
        THEN /\ Becomes([st EXCEPT !.runs[Len(st.runs)].waiter = factoryName])
             /\ result' = None
        ELSE /\ Becomes([st EXCEPT
                           !.cm = getFactoryStore(@, factoryName, now)])
             /\ result' = findFactoryFile(cacheManager, factoryName, now)
     /\ Event([op |-> "findFactoryFile", factoryName |-> factoryName,
               lookedUp |-> ~Starts(st)])

\* The file watcher of extension.ts: onDidChange, onDidCreate, onDidDelete
\* call initializeFactoryFiles
FileWatcherEvent ==
  /\ Becomes(initializeFactoryFiles(State))
  /\ result' = None
  /\ Event([op |-> "fileWatcherEvent"])

\* handleConfigurationChange
HandleConfigurationChange(configuredTimeout, configuredBatchSize) ==
  /\ Becomes(initializeFactoryFilesAsync(
       [provider |-> [isInitializing |-> FALSE,
                      initializationPromise |-> FALSE,
                      batchSize |-> setBatchSize(configuredBatchSize)],
        cm |-> setInitialized(
                 setCacheTimeout(cacheManager,
                                 getCacheTimeout(configuredTimeout) * 1000),
                 FALSE),
        runs |-> runs]))
  /\ result' = None
  /\ Event([op |-> "handleConfigurationChange"])

NextProvider ==
  \/ \E r \in 1..MaxRuns : \E factoryFiles \in SearchResults :
       SearchResolved(r, factoryFiles)
  \/ \E r \in 1..MaxRuns : \E fileUri \in Uris, ok \in BOOLEAN :
       ReadResolved(r, fileUri, ok)
  \/ \E r \in 1..MaxRuns : CacheResults(r)
  \/ \E r \in 1..MaxRuns : Finalize(r)
  \/ \E r \in 1..MaxRuns : Finally(r)
  \/ \E document \in CallSites : ProvideDocumentLinks(document)
  \/ FileWatcherEvent
  \/ \E configuredTimeout \in ConfiguredTimeouts, configuredBatchSize \in BatchSizes :
       HandleConfigurationChange(configuredTimeout, configuredBatchSize)

SpecProvider == InitProvider /\ [][NextProvider]_vars

\* The runs with their failures, the answers to the error message and
\* findFactoryFile; the configuration changes keep the cache timeout
NextLifecycle ==
  \/ \E r \in 1..MaxRuns : \E factoryFiles \in SearchResults :
       SearchResolved(r, factoryFiles)
  \/ \E r \in 1..MaxRuns : SearchFailed(r)
  \/ \E r \in 1..MaxRuns, retry \in BOOLEAN : ErrorAnswered(r, retry)
  \/ \E r \in 1..MaxRuns : \E fileUri \in Uris, ok \in BOOLEAN :
       ReadResolved(r, fileUri, ok)
  \/ \E r \in 1..MaxRuns : CacheResults(r)
  \/ \E r \in 1..MaxRuns : Finalize(r)
  \/ \E r \in 1..MaxRuns : Finally(r)
  \/ \E factoryName \in FactoryNames : FindFactoryFile(factoryName)
  \/ FileWatcherEvent
  \/ \E configuredBatchSize \in BatchSizes :
       HandleConfigurationChange(DEFAULT_CACHE_TIMEOUT, configuredBatchSize)

SpecLifecycle == InitProvider /\ [][NextLifecycle]_vars

-----------------------------------------------------------------------------
(* The resolver over a store its callers fill: an initialised provider, the  *)
(* store operations that insert entries, the clock, and provideDocumentLinks *)
(* of any of the documents.  The store has the default TTL of the provider.  *)

WaitSteps == {30001}

\* The entries the callers insert: each factory in a file of its own, and the
\* trait t of either factory
LinkFactoryInputs ==
  {Factory("a", Location("spec/factories/u.rb", 0)),
   Factory("b", Location("test/factories/u.rb", 0))}

LinkTraitInputs ==
  {Trait("t", f.location, f.name) : f \in LinkFactoryInputs}

InitLinks ==
  /\ cacheManager = setInitialized(NewCacheManager(0), TRUE)
  /\ now = 0
  /\ opCount = 0
  /\ lastOp = [op |-> "new"]
  /\ result = None
  /\ text = <<>>
  /\ parseResult = None
  /\ workspace = <<>>
  /\ provider = [isInitializing |-> FALSE, initializationPromise |-> FALSE,
                 batchSize |-> 1]
  /\ runs = <<>>
  /\ mtime = <<>>
  /\ changes = <<>>

\* Time passes between two calls
Wait ==
  /\ \E d \in WaitSteps :
       /\ now + d <= MaxTicks * d
       /\ now' = now + d
  /\ lastOp' = [op |-> "wait"]
  /\ UNCHANGED <<cacheManager, opCount, result, parserVars, providerVars>>

NextLinks ==
  \/ Wait
  \/ \E f \in LinkFactoryInputs : CacheFactory(f)
  \/ \E tr \in LinkTraitInputs : CacheTrait(tr)
  \/ \E document \in Documents : ProvideDocumentLinks(document)

SpecLinks == InitLinks /\ [][NextLinks]_vars

-----------------------------------------------------------------------------
(* Claims about the initialization                                         *)

\* The factory names and the trait keys a file's text defines
DefinedFactories(str) == {h.name : h \in Range(HeadersFrom(SplitLines(str), 1))}

DefinedTraits(str) ==
  LET lines == SplitLines(str)
  IN {<<EnclosingFactory(lines, n), NameOf(lines[n][4])>> :
        n \in {k \in DOMAIN lines : IsTraitHeader(lines[k])}}

\* C7, as claimed: when a run of the initialization has read every file of
\* its priority-sorted list and cached the results, every factory name and
\* every trait key the files define is cached from the first file of the list
\* that defines it, in whichever order the reads completed.
C7_FirstDefinitionWins ==
  [][ \A r \in 1..MaxRuns :
        (CacheResults(r) /\ runs[r].failed = {}) =>
          LET files == runs[r].sortedFiles IN
          \A i \in DOMAIN files :
            /\ \A x \in DefinedFactories(workspace[files[i]]) :
                 (\A k \in 1..(i - 1) : x \notin DefinedFactories(workspace[files[k]]))
                 => \E f \in getFactoryValue(cacheManager', x, now) :
                      f.location.uri = files[i]
            /\ \A key \in DefinedTraits(workspace[files[i]]) :
                 (\A k \in 1..(i - 1) : key \notin DefinedTraits(workspace[files[k]]))
                 => \E tr \in getTraitValue(cacheManager', key[1], key[2], now) :
                      tr.location.uri = files[i]
    ]_vars

\* The runs of initializeFactoryFiles between their start and their completion
InFlight == {r \in DOMAIN runs : runs[r].pc # "done"}

\* C8, as claimed: at most one run of initializeFactoryFiles is between its
\* start and its completion, and no run clears the store while another run
\* has its bulk insert pending.
C8_SingleRunInFlight ==
  /\ [](Cardinality(InFlight) <= 1)
  /\ [][ \A r \in 1..MaxRuns : \A factoryFiles \in SearchResults :
           SearchResolved(r, factoryFiles) =>
             \A other \in DOMAIN runs \ {r} : runs[other].pc \notin {"parse", "cache"}
       ]_vars

-----------------------------------------------------------------------------
(* Claims about the resolver                                                 *)

\* The step is provideDocumentLinks(lastOp'.document) of an initialised
\* provider
Linking ==
  /\ lastOp'.op = "provideDocumentLinks"
  /\ cacheManager.isInitialized

\* The call sites of the document of the step: its lines
LinkedSites == SplitLines(lastOp'.document)

\* The elements of a set of numbers, ascending
RECURSIVE Ascending(_)
Ascending(S) == IF S = {} THEN <<>> ELSE <<Min(S)>> \o Ascending(S \ {Min(S)})

\* The offsets of the symbols of a call site, left to right: the first is the
\* factory symbol, the others are the trait symbols
SymbolOffsets(site) ==
  Ascending({i \in 0..(Len(site) - 1) : At(site, i) \in Symbols})

\* The offsets of the symbols that stand before the first argument that is no
\* symbol
LeadingSymbolOffsets(site) ==
  LET other == {i \in 0..(Len(site) - 1) : At(site, i) = "5"}
  IN Ascending({i \in 0..(Len(site) - 1) :
                  /\ At(site, i) \in Symbols
                  /\ \A o \in other : i < o})

\* The offset in the document of its k-th call site
RECURSIVE SiteStart(_, _)
SiteStart(sites, k) ==
  IF k = 1 THEN 0 ELSE SiteStart(sites, k - 1) + Len(sites[k - 1]) + 1

\* The definitions the store holds at time t: the entries of an age of at
\* most the TTL
CachedFactory(cm, name, t) ==
  {e.factory : e \in {x \in cm.factoryCache :
                        x.key = name /\ t - x.timestamp <= cm.cacheTimeout}}

CachedTrait(cm, factoryName, traitName, t) ==
  {e.trait : e \in {x \in cm.traitCache :
                      /\ x.key = factoryName \o ":" \o traitName
                      /\ t - x.timestamp <= cm.cacheTimeout}}

\* The reference of a symbol: its span is the token, its target the location
\* of the definition
Reference(offset, definition, tooltip) ==
  [range |-> <<offset, offset + 1>>,
   target |-> [uri |-> definition.location.uri,
               lineNumber |-> definition.location.line],
   tooltip |-> tooltip]

\* The references of the trait symbols at the given offsets of a call site
\* that starts at `base`, for the cached ones
RECURSIVE TraitReferences(_, _, _, _, _, _)
TraitReferences(cm, site, base, offsets, k, t) ==
  IF k > Len(offsets) THEN <<>>
  ELSE LET factoryName == NameOf(At(site, offsets[1]))
           traitName == NameOf(At(site, offsets[k]))
           cached == CachedTrait(cm, factoryName, traitName, t)
       IN (IF cached = {} THEN <<>>
           ELSE <<Reference(base + offsets[k], CHOOSE tr \in cached : TRUE,
                            <<"trait", traitName, factoryName>>)>>)
          \o TraitReferences(cm, site, base, offsets, k + 1, t)

\* The references of one call site: the factory, then the traits
SiteReferences(cm, site, base, offsets, t) ==
  LET factoryName == NameOf(At(site, offsets[1]))
      cached == CachedFactory(cm, factoryName, t)
  IN (IF cached = {} THEN <<>>
      ELSE <<Reference(base + offsets[1], CHOOSE f \in cached : TRUE,
                       <<"factory", factoryName>>)>>)
     \o TraitReferences(cm, site, base, offsets, 2, t)

\* The references of a document, call site after call site, each with all
\* its symbols
RECURSIVE References(_, _, _, _)
References(cm, sites, k, t) ==
  IF k > Len(sites) THEN <<>>
  ELSE SiteReferences(cm, sites[k], SiteStart(sites, k),
                      SymbolOffsets(sites[k]), t)
       \o References(cm, sites, k + 1, t)

\* Every symbol of every call site has a cached definition
AllCached(cm, sites, t) ==
  \A k \in DOMAIN sites :
    LET offsets == SymbolOffsets(sites[k])
        factoryName == NameOf(At(sites[k], offsets[1]))
    IN /\ CachedFactory(cm, factoryName, t) # {}
       /\ \A j \in 2..Len(offsets) :
            CachedTrait(cm, factoryName, NameOf(At(sites[k], offsets[j])), t) # {}

\* No call site has a symbol behind an argument that is no symbol
SymbolsLead(sites) ==
  \A k \in DOMAIN sites :
    LeadingSymbolOffsets(sites[k]) = SymbolOffsets(sites[k])

\* C11: for a document whose call sites reference only cached factories and
\* traits, the symbols of each call site standing in one list behind the
\* method, provideDocumentLinks returns for each call site, in the order of
\* the document, the reference of the factory and then the references of the
\* traits from left to right; the span of a reference is the token of its
\* symbol and its target is the cached location of the definition
C11_ReferencesPerCallSite ==
  [][/\ Linking
     /\ SymbolsLead(LinkedSites)
     /\ AllCached(cacheManager, LinkedSites, now)
     => result' = Some(References(cacheManager, LinkedSites, 1, now))]_vars

\* A store that holds a definition for every symbol of the documents
EveryDefinitionCached(cm, t) ==
  [cm EXCEPT
     !.factoryCache = {FactoryEntry(f, t) : f \in LinkFactoryInputs},
     !.traitCache = {[key |-> getKey(tr), trait |-> tr, timestamp |-> t] :
                       tr \in LinkTraitInputs}]

\* The definition a link tells of in its tooltip, if the store holds it
Resolved(cm, tooltip, t) ==
  IF tooltip[1] = "factory" THEN CachedFactory(cm, tooltip[2], t)
  ELSE CachedTrait(cm, tooltip[3], tooltip[2], t)

\* The links of the document against a store that resolves every symbol,
\* without those of the symbols that the store cm does not resolve, each
\* with the target that cm holds
ResolvableLinks(cm, document, t) ==
  LET all == provideDocumentLinks(EveryDefinitionCached(cm, t), document, t).links
      Resolvable(link) == Resolved(cm, link.tooltip, t) # {}
      kept == SelectSeq(all, Resolvable)
  IN [k \in DOMAIN kept |->
        Reference(kept[k].range[1],
                  CHOOSE d \in Resolved(cm, kept[k].tooltip, t) : TRUE,
                  kept[k].tooltip)]

\* Every call site is written with parentheses
Parenthesised(sites) == \A k \in DOMAIN sites : At(sites[k], 1) = "("

\* C12: provideDocumentLinks returns a list of links, never an error; a
\* symbol without a cached definition gets no link, and the links of the
\* other symbols, of the same and of the other call sites, are the ones
\* returned when every symbol has a definition; for parenthesised call sites
\* with their symbols in one list these are the references of all cached
\* symbols; against an empty store the list is empty
C12_UnresolvedSkipped ==
  [][Linking =>
       /\ result' = Some(ResolvableLinks(cacheManager, lastOp'.document, now))
       /\ (Parenthesised(LinkedSites) /\ SymbolsLead(LinkedSites)
           => result' = Some(References(cacheManager, LinkedSites, 1, now)))
       /\ (cacheManager.factoryCache = {} /\ cacheManager.traitCache = {}
           => result' = Some(<<>>))]_vars

\* provideDocumentLinks of "create(:a, :t)\ncreate(:b)" has returned the
\* links of :t and of :b while factory a has no definition
C12_Witness ==
  /\ lastOp.op = "provideDocumentLinks"
  /\ lastOp.document = <<"create", "(", ":a", ",", " ", ":t", ")", "\n",
                         "create", "(", ":b", ")">>
  /\ ~MapHas(cacheManager.factoryCache, "a")
  /\ \E links \in result :
       /\ Len(links) = 2
       /\ links[1].tooltip = <<"trait", "t", "a">>
       /\ links[1].range = <<5, 6>>
       /\ links[2].tooltip = <<"factory", "b">>
       /\ links[2].range = <<10, 11>>

\* The factory names provideDocumentLinks looks up for a document: the first
\* symbol of each match of the call pattern
LookedUpFactories(document) ==
  {NameOf(match.groups[2][1]) : match \in Range(FactoryCallTable[document])}

\* The trait keys it looks up: the symbols of match[1] behind the first
LookedUpTraits(document) ==
  UNION {{NameOf(match.groups[2][1]) \o ":" \o NameOf(At(match.groups[1], i)) :
            i \in {j \in 1..(Len(match.groups[1]) - 1) :
                     At(match.groups[1], j) \in Symbols}} :
         match \in Range(FactoryCallTable[document])}

\* C13 as the spec states it: the factory cache, the trait cache and the file
\* index are the same before and after provideDocumentLinks, also in a store
\* that holds entries older than the TTL
C13_StoreUnchanged ==
  [][Linking =>
       /\ cacheManager'.factoryCache = cacheManager.factoryCache
       /\ cacheManager'.traitCache = cacheManager.traitCache
       /\ cacheManager'.fileCache = cacheManager.fileCache]_vars

\* C13, amended: provideDocumentLinks inserts and replaces nothing and leaves
\* the file index, the TTL and the initialised flag as they are; of the
\* factory cache and the trait cache it deletes the entries older than the
\* TTL whose names it looks up, and no other entry
C13_OnlyExpiredLookedUpDeleted ==
  [][Linking =>
       /\ cacheManager'.fileCache = cacheManager.fileCache
       /\ cacheManager'.cacheTimeout = cacheManager.cacheTimeout
       /\ cacheManager'.isInitialized = cacheManager.isInitialized
       /\ cacheManager'.factoryCache =
            {e \in cacheManager.factoryCache :
               ~(/\ e.key \in LookedUpFactories(lastOp'.document)
                 /\ now - e.timestamp > cacheManager.cacheTimeout)}
       /\ cacheManager'.traitCache =
            {e \in cacheManager.traitCache :
               ~(/\ e.key \in LookedUpTraits(lastOp'.document)
                 /\ now - e.timestamp > cacheManager.cacheTimeout)}]_vars

\* provideDocumentLinks has deleted the expired entry of factory a, which the
\* file index still lists, and has left an expired trait entry it did not
\* look up
C13_Witness ==
  /\ lastOp.op = "provideDocumentLinks"
  /\ ~MapHas(cacheManager.factoryCache, "a")
  /\ \E e \in cacheManager.fileCache : "a" \in e.factories
  /\ \E e \in cacheManager.traitCache :
       now - e.timestamp > cacheManager.cacheTimeout

\* The links among `links` whose span lies in the match
LinksIn(links, match) ==
  LET Within(link) ==
        match.index <= link.range[1] /\ link.range[1] < match.lastIndex
  IN SelectSeq(links, Within)

\* The links of a match are the references of the symbols of the match at
\* the given offsets: the first symbol as the factory, the others as traits
\* of that factory, left to right, each if it is cached
MatchLinked(links, match, offsets) ==
  LinksIn(links, match)
    = SiteReferences(cacheManager, match.all, match.index, offsets, now)

\* C14 as the spec states it: in one call-site match every symbol that
\* follows the factory symbol, also one behind an argument that is no
\* symbol, is looked up as a trait of that factory, left to right, and gets a
\* trait reference when cached
C14_EverySymbolLookedUp ==
  [][Linking =>
       \A links \in result' :
         \A match \in Range(FactoryCallTable[lastOp'.document]) :
           MatchLinked(links, match, SymbolOffsets(match.all))]_vars

\* C14, amended: in one call-site match the symbols of the list that begins
\* with the factory symbol, before the first argument that is no symbol, are
\* looked up as traits of that factory, left to right, and get a trait
\* reference when cached; a symbol behind an argument that is no symbol is
\* not looked up and gets no reference
C14_LeadingSymbolsLookedUp ==
  [][Linking =>
       \A links \in result' :
         \A match \in Range(FactoryCallTable[lastOp'.document]) :
           MatchLinked(links, match, LeadingSymbolOffsets(match.all))]_vars

\* provideDocumentLinks of "create_list(:a, 5, :t)" has returned the link of
\* :a alone while the store holds trait t of factory a
C14_Witness ==
  /\ lastOp.op = "provideDocumentLinks"
  /\ lastOp.document =
       <<"create_list", "(", ":a", ",", " ", "5", ",", " ", ":t", ")">>
  /\ CachedTrait(cacheManager, "a", "t", now) # {}
  /\ \E links \in result :
       /\ Len(links) = 1
       /\ links[1].tooltip = <<"factory", "a">>

-----------------------------------------------------------------------------
(* Claims about parseMultipleFiles                                           *)

\* The factories and the traits of the parse results of the files that did
\* not fail, in the order of the list
RECURSIVE FactoriesOfNonFailing(_, _)
FactoriesOfNonFailing(fileUris, failed) ==
  IF fileUris = <<>> THEN <<>>
  ELSE (IF Head(fileUris) \in failed THEN <<>>
        ELSE parseText(workspace[Head(fileUris)], Head(fileUris)).factories)
       \o FactoriesOfNonFailing(Tail(fileUris), failed)

RECURSIVE TraitsOfNonFailing(_, _)
TraitsOfNonFailing(fileUris, failed) ==
  IF fileUris = <<>> THEN <<>>
  ELSE (IF Head(fileUris) \in failed THEN <<>>
        ELSE parseText(workspace[Head(fileUris)], Head(fileUris)).traits)
       \o TraitsOfNonFailing(Tail(fileUris), failed)

\* The files of the batches before the k-th
RECURSIVE FilesBefore(_, _)
FilesBefore(batches, k) ==
  IF k <= 1 THEN <<>> ELSE FilesBefore(batches, k - 1) \o batches[k - 1]

ReadsInFlight(run) == run.started \ run.completed

\* C16: while parseMultipleFiles runs, at most batchSize reads are in flight;
\* the reads of a group are started together, no read of group k+1 is
\* started before every read of group k has completed, and the groups are
\* the list of files cut into pieces of batchSize, in the order of the list
C16_BatchesInTurn ==
  \A r \in DOMAIN runs :
    runs[r].pc = "parse" =>
      LET run == runs[r] IN
      /\ Cardinality(ReadsInFlight(run)) <= run.batchSize
      /\ \A k \in DOMAIN run.batches :
           /\ Len(run.batches[k]) <= run.batchSize
           /\ Range(run.batches[k]) \cap run.started # {}
                => Range(run.batches[k]) \subseteq run.started
           /\ k > 1 /\ Range(run.batches[k]) \cap run.started # {}
                => Range(run.batches[k - 1]) \subseteq run.completed
      /\ FilesBefore(run.batches, Len(run.batches) + 1) = run.sortedFiles
      /\ run.started = Range(FilesBefore(run.batches, run.batch + 1))

\* With a batch size of 1 the read of the second file is in flight after the
\* read of the first has completed
C16_Witness ==
  \E r \in DOMAIN runs :
    /\ runs[r].pc = "parse"
    /\ runs[r].batchSize = 1
    /\ runs[r].batch = 2
    /\ runs[r].completed = Range(runs[r].batches[1])
    /\ ReadsInFlight(runs[r]) = Range(runs[r].batches[2])

-----------------------------------------------------------------------------
(* The file watcher: a factory file is modified, the watcher reports the     *)
(* change, and handleFileChange brings the store up to date.  The provider  *)
(* is initialised and its store holds what the files defined when they were *)
(* read.                                                                     *)

MaxChanges == 2

\* The contents a factory file may have: its factory with the trait t, or
\* without it
WatchedTexts(uri) ==
  LET c == IF uri = "spec/factories/u.rb" THEN ":a" ELSE ":b"
  IN {JoinLines(<<FactoryHeader(c), TraitHeader(":t"), EndLine, EndLine>>),
      JoinLines(<<FactoryHeader(c), EndLine>>)}

\* The files as searchFactoryFiles lists them
WatchedFiles == <<"spec/factories/u.rb", "test/factories/u.rb">>

\* The state after the initialization has read, parsed and cached the files
\* at time t
Initialized(files, t) ==
  setInitialized(
    CacheNewTraits(
      CacheNewFactories(clearAll(NewCacheManager(0)),
                        MergeFactories(files, WatchedFiles, {}), t),
      MergeTraits(files, WatchedFiles, {}), t),
    TRUE)

InitWatch ==
  /\ workspace \in {files \in [Uris -> UNION {WatchedTexts(uri) : uri \in Uris}] :
                      \A uri \in Uris : files[uri] \in WatchedTexts(uri)}
  /\ mtime = [uri \in Uris |-> 0]
  /\ now = 1
  /\ cacheManager = Initialized(workspace, 1)
  /\ provider = [isInitializing |-> FALSE, initializationPromise |-> FALSE,
                 batchSize |-> 1]
  /\ runs = <<>>
  /\ changes = <<>>
  /\ opCount = 0
  /\ lastOp = [op |-> "new"]
  /\ result = None
  /\ text = <<>>
  /\ parseResult = None

\* A step of the watcher or of a handler
Watched(op) ==
  /\ lastOp' = op
  /\ UNCHANGED <<now, opCount, result, parserVars, provider, runs>>

\* The file is saved with another content; the watcher will report it
ModifyFile(uri, content) ==
  /\ Len(changes) < MaxChanges
  /\ content # workspace[uri]
  /\ workspace' = [workspace EXCEPT ![uri] = content]
  /\ mtime' = [mtime EXCEPT ![uri] = now]
  /\ changes' = Append(changes, [uri |-> uri, pc |-> "event", lastModified |-> 0,
                                 ok |-> TRUE, content |-> <<>>])
  /\ Watched([op |-> "modifyFile", uri |-> uri])
  /\ UNCHANGED cacheManager

\* The file is deleted: stat and readFile of it fail from now on (no file: the
\* modification time -1, the content empty); the watcher will report it
DeleteFile(uri) ==
  /\ Len(changes) < MaxChanges
  /\ mtime[uri] # -1
  /\ workspace' = [workspace EXCEPT ![uri] = <<>>]
  /\ mtime' = [mtime EXCEPT ![uri] = -1]
  /\ changes' = Append(changes, [uri |-> uri, pc |-> "event", lastModified |-> 0,
                                 ok |-> TRUE, content |-> <<>>])
  /\ Watched([op |-> "deleteFile", uri |-> uri])
  /\ UNCHANGED cacheManager

\* The watcher calls handleFileChange(uri), which calls shouldUpdateFile: a
\* file without entry in the file index is to be updated, for the others
\* stat is awaited, with the entry found in hand
HandleFileChange(h) ==
  /\ h \in DOMAIN changes
  /\ changes[h].pc = "event"
  /\ changes' = [changes EXCEPT ![h] =
       IF ~MapHas(cacheManager.fileCache, changes[h].uri)
       THEN [@ EXCEPT !.pc = "read"]
       ELSE [@ EXCEPT !.pc = "stat",
                      !.lastModified =
                        MapGet(cacheManager.fileCache, changes[h].uri).lastModified]]
  /\ Watched([op |-> "handleFileChange", change |-> h])
  /\ UNCHANGED <<cacheManager, workspace, mtime>>

\* A comparison that takes a file as old as its entry for newer
shouldUpdateFile_NotOlder(lastModified, stat) == stat >= lastModified

\* shouldUpdateFile after its await, for the entry found before it:
\* return stat.mtime > fileInfo.lastModified
shouldUpdateFile(lastModified, stat) == stat > lastModified

\* stat resolves or fails.  When it resolves, shouldUpdateFile returns the
\* comparison; when it fails (no file), it removes the file from the store and
\* returns false.  handleFileChange returns when shouldUpdateFile does so
\* with false.  lastOp also keeps what the call found: the keys of the cached
\* traits located in the file.
StatResolved(h) ==
  /\ h \in DOMAIN changes
  /\ changes[h].pc = "stat"
  /\ LET uri == changes[h].uri
         returned == /\ mtime[uri] # -1
                     /\ shouldUpdateFile(changes[h].lastModified, mtime[uri])
     IN /\ changes' = [changes EXCEPT ![h] =
             [@ EXCEPT !.pc = IF returned THEN "read" ELSE "done"]]
        /\ cacheManager' = IF mtime[uri] = -1
                           THEN removeFileFromCache(cacheManager, uri)
                           ELSE cacheManager
        /\ Watched([op |-> "statResolved", change |-> h, returned |-> returned,
                    found |-> {e.key : e \in {x \in cacheManager.traitCache :
                                               x.trait.location.uri = uri}}])
  /\ UNCHANGED <<workspace, mtime>>

\* readFile of parseFile reads the content the file has now, or fails when
\* there is no file
FileRead(h) ==
  /\ h \in DOMAIN changes
  /\ changes[h].pc = "read"
  /\ changes' = [changes EXCEPT ![h] =
       [@ EXCEPT !.pc = "parse", !.ok = mtime[changes[h].uri] # -1,
                 !.content = workspace[changes[h].uri]]]
  /\ Watched([op |-> "fileRead", change |-> h])
  /\ UNCHANGED <<cacheManager, workspace, mtime>>

\* readFile resolves: the content read is parsed and updateFileCache puts
\* the result in the place of the entries of the file
FileParsed(h) ==
  /\ h \in DOMAIN changes
  /\ changes[h].pc = "parse"
  /\ LET uri == changes[h].uri
         parsed == parseFile([workspace EXCEPT ![uri] = changes[h].content],
                             uri, changes[h].ok)
     IN cacheManager' = updateFileCache(cacheManager, uri, parsed.factories,
                                        parsed.traits, now)
  /\ changes' = [changes EXCEPT ![h] = [@ EXCEPT !.pc = "done"]]
  /\ Watched([op |-> "fileParsed", change |-> h])
  /\ UNCHANGED <<workspace, mtime>>

NextWatch ==
  \/ Wait
  \/ \E uri \in Uris : \E content \in WatchedTexts(uri) : ModifyFile(uri, content)
  \/ \E uri \in Uris : DeleteFile(uri)
  \/ \E h \in 1..MaxChanges : HandleFileChange(h)
  \/ \E h \in 1..MaxChanges : StatResolved(h)
  \/ \E h \in 1..MaxChanges : FileRead(h)
  \/ \E h \in 1..MaxChanges : FileParsed(h)

SpecWatch == InitWatch /\ [][NextWatch]_vars

\* The trait keys the store holds from a file
TraitsCachedFrom(cm, uri) ==
  {<<e.trait.factoryName, e.trait.name>> :
     e \in {x \in cm.traitCache : x.trait.location.uri = uri}}

\* Every change event has been handled
AllHandled == \A h \in DOMAIN changes : changes[h].pc = "done"

\* C17, for the traits: once handleFileChange has completed for every change
\* event, whenever the modifications were made, the store holds from each
\* file the traits its current content defines, and no other
C17_ChangesReflected ==
  AllHandled =>
    \A uri \in Uris :
      TraitsCachedFrom(cacheManager, uri) = DefinedTraits(workspace[uri])

-----------------------------------------------------------------------------
(* The settings of the two services: a CacheManager and a FactoryParser are  *)
(* constructed with or without their parameter, and their setters, the      *)
(* store operations, the clock and the batching are called in any order.    *)

BATCH_SIZE == 10

\* new FactoryParser(errorNotificationService, batchSize): the batch size of
\* the parser; 0 stands for no argument as well
NewFactoryParser(batchSize) == IF batchSize # 0 THEN batchSize ELSE BATCH_SIZE

\* The values handed to the constructors and the setters
CacheTimeoutArgs == {0, 50, 10000}
BatchSizeArgs == {0, 5, 100}

InitSettings ==
  /\ \E cacheTimeoutMs \in CacheTimeoutArgs, batchSize \in BatchSizeArgs :
       /\ cacheManager = NewCacheManager(cacheTimeoutMs)
       /\ provider = [isInitializing |-> FALSE, initializationPromise |-> FALSE,
                      batchSize |-> NewFactoryParser(batchSize)]
       /\ lastOp = [op |-> "new", cacheTimeoutMs |-> cacheTimeoutMs,
                    batchSize |-> batchSize]
  /\ now = 0
  /\ opCount = 0
  /\ result = None
  /\ text = <<>>
  /\ parseResult = None
  /\ workspace = <<>>
  /\ runs = <<>>
  /\ mtime = <<>>
  /\ changes = <<>>

SetCacheTimeout(timeoutMs) ==
  /\ Called([op |-> "setCacheTimeout", timeoutMs |-> timeoutMs])
  /\ cacheManager' = setCacheTimeout(cacheManager, timeoutMs)
  /\ result' = None

SetBatchSize(batchSize) ==
  /\ opCount < MaxOps
  /\ opCount' = opCount + 1
  /\ lastOp' = [op |-> "setBatchSize", batchSize |-> batchSize]
  /\ provider' = [provider EXCEPT !.batchSize = setBatchSize(batchSize)]
  /\ result' = None
  /\ UNCHANGED <<cacheManager, now, parserVars, workspace, runs, mtime, changes>>

\* parseMultipleFiles(fileUris) up to its first await: the batches it cuts
\* (with a batch size below 1 the loop of createBatches does not end)
CreateBatches(fileUris) ==
  /\ provider.batchSize >= 1
  /\ Called([op |-> "createBatches", batchSize |-> provider.batchSize])
  /\ result' = Some(createBatches(fileUris, provider.batchSize))
  /\ UNCHANGED cacheManager

NextSettings ==
  \/ Tick
  \/ \E timeoutMs \in CacheTimeoutArgs : SetCacheTimeout(timeoutMs)
  \/ \E batchSize \in BatchSizeArgs : SetBatchSize(batchSize)
  \/ CreateBatches(WatchedFiles)
  \/ \E f \in LinkFactoryInputs : CacheFactory(f)
  \/ \E n \in FactoryNames : GetFactory(n)

SpecSettings == InitSettings /\ [][NextSettings]_vars

\* C18 as the spec states it: the TTL of a store is at least 1000 ms in every
\* state, whether it was given to the constructor or to setCacheTimeout
C18_TtlAtLeastMinimum == cacheManager.cacheTimeout >= MIN_CACHE_TIMEOUT

\* C18, amended: setCacheTimeout sets the TTL to the requested value, raised
\* to 1000 ms when it is below; the constructor takes its parameter as it is
\* given, 60000 ms without one; no other operation changes the TTL
C18_FloorInSetterOnly ==
  /\ [](lastOp.op = "new" =>
          cacheManager.cacheTimeout =
            IF lastOp.cacheTimeoutMs # 0 THEN lastOp.cacheTimeoutMs
            ELSE DEFAULT_CACHE_TIMEOUT)
  /\ [][/\ lastOp'.op = "setCacheTimeout" /\ opCount' = opCount + 1 =>
             /\ cacheManager'.cacheTimeout >= MIN_CACHE_TIMEOUT
             /\ cacheManager'.cacheTimeout >= lastOp'.timeoutMs
             /\ cacheManager'.cacheTimeout
                  \in {MIN_CACHE_TIMEOUT, lastOp'.timeoutMs}
        /\ cacheManager'.cacheTimeout # cacheManager.cacheTimeout =>
             lastOp'.op = "setCacheTimeout"]_vars

\* setCacheTimeout(50) has raised the TTL of a store constructed with 50 ms
\* to 1000 ms
C18_Witness ==
  /\ lastOp.op = "setCacheTimeout"
  /\ lastOp.timeoutMs = 50
  /\ cacheManager.cacheTimeout = MIN_CACHE_TIMEOUT

\* C19: the batch size of the parser is between 1 and 50 in every state,
\* whether it was given to the constructor or to setBatchSize, and it is 10
\* when the constructor was given none
C19_BatchSizeInRange ==
  /\ provider.batchSize \in 1..50
  /\ lastOp.op = "new" /\ lastOp.batchSize = 0 => provider.batchSize = BATCH_SIZE

-----------------------------------------------------------------------------
(* One parser, called again and again: parseText of one text after the      *)
(* other, with every call and what it returned kept in `result`.            *)

ReparsedTexts == FileTexts \cup {JoinLines(<<FactoryHeader(":a"), EndLine>>)}

InitReparse ==
  /\ text = <<>>
  /\ parseResult = None
  /\ result = <<>>
  /\ cacheManager = NewCacheManager(0)
  /\ now = 0
  /\ opCount = 0
  /\ lastOp = [op |-> "new"]
  /\ workspace = <<>>
  /\ provider = Null
  /\ runs = <<>>
  /\ mtime = <<>>
  /\ changes = <<>>

\* parseText(str, fileUri) of the parser that has served the earlier calls
Reparse(str, fileUri) ==
  /\ opCount < MaxOps
  /\ opCount' = opCount + 1
  /\ text' = str
  /\ LET returned == parseText(str, fileUri)
     IN /\ parseResult' = Some(returned)
        /\ result' = Append(result, [text |-> str, fileUri |-> fileUri,
                                     returned |-> returned])
  /\ lastOp' = [op |-> "parseText", fileUri |-> fileUri]
  /\ UNCHANGED <<cacheManager, now, providerVars>>

NextReparse == \E str \in ReparsedTexts, fileUri \in Uris : Reparse(str, fileUri)

SpecReparse == InitReparse /\ [][NextReparse]_vars

-----------------------------------------------------------------------------
(* Texts with a malformed header: `factory user do`, the name without its   *)
(* colon, among well-formed blocks.                                         *)

\* line `factory user do`
MalformedHeader == <<"factory", " ", "name", " ", "do">>

MalformedLines ==
  {MalformedHeader, FactoryHeader(":a"), FactoryHeader(":b"), OtherLine, EndLine}

NextMalformed ==
  \/ \E line \in MalformedLines : WriteLine(line)
  \/ \E fileUri \in Uris : ParseText(fileUri)

SpecMalformed == InitParse /\ [][NextMalformed]_vars

\* The lines of a text with every malformed header given a colon
Repaired(lines) ==
  [n \in DOMAIN lines |->
     IF lines[n] = MalformedHeader THEN FactoryHeader(":t") ELSE lines[n]]

\* C21: parseText of the empty string returns no factories and no traits;
\* of a text of blocks of which some have a header without the colon, it
\* returns no factory for those headers and a factory for every well-formed
\* header, in document order
C21_MalformedContributesNothing ==
  \A r \in parseResult :
    /\ text = <<>> => r.factories = <<>> /\ r.traits = <<>>
    /\ /\ text # <<>>
       /\ Depth(Repaired(SplitLines(text)), Len(SplitLines(text))) = 0
       => [i \in DOMAIN r.factories |-> r.factories[i].name]
            = [i \in DOMAIN HeadersFrom(SplitLines(text), 1) |->
                 HeadersFrom(SplitLines(text), 1)[i].name]

-----------------------------------------------------------------------------
(* clearAll from any state of the store: a store constructed with or        *)
(* without a TTL is filled, marked initialised and given another TTL by its *)
(* callers, and cleared.                                                    *)

InitClear ==
  /\ \E cacheTimeoutMs \in CacheTimeoutArgs :
       cacheManager = NewCacheManager(cacheTimeoutMs)
  /\ now = 0
  /\ opCount = 0
  /\ lastOp = [op |-> "new"]
  /\ result = None
  /\ text = <<>>
  /\ parseResult = None
  /\ workspace = <<>>
  /\ provider = Null
  /\ runs = <<>>
  /\ mtime = <<>>
  /\ changes = <<>>

SetInitialized(initialized) ==
  /\ Called([op |-> "setInitialized", initialized |-> initialized])
  /\ cacheManager' = setInitialized(cacheManager, initialized)
  /\ result' = None

NextClear ==
  \/ \E f \in LinkFactoryInputs : CacheFactory(f)
  \/ \E tr \in LinkTraitInputs : CacheTrait(tr)
  \/ \E u \in Uris : \E fs \in FileFactoryLists(u), ts \in FileTraitLists(u) :
       UpdateFileCache(u, fs, ts)
  \/ \E initialized \in BOOLEAN : SetInitialized(initialized)
  \/ \E timeoutMs \in CacheTimeoutArgs : SetCacheTimeout(timeoutMs)
  \/ ClearAll

SpecClear == InitClear /\ [][NextClear]_vars

\* C22: whatever the store held before, after clearAll it holds no factory,
\* no trait and no file index entry, its initialized flag is false, and its
\* TTL is the one it had before the call
C22_ClearAllEmpties ==
  [][lastOp'.op = "clearAll" /\ opCount' = opCount + 1 =>
       /\ cacheManager'.factoryCache = {}
       /\ cacheManager'.traitCache = {}
       /\ cacheManager'.fileCache = {}
       /\ getCacheStats(cacheManager') =
            [factoryCount |-> 0, traitCount |-> 0, fileCount |-> 0,
             isInitialized |-> FALSE,
             cacheTimeout |-> cacheManager.cacheTimeout]
       /\ cacheManager'.cacheTimeout = lastOp'.before.cacheTimeout]_vars

\* clearAll has cleared an initialised store that held a factory, a trait and
\* a file index entry, with a TTL its constructor was given
C22_Witness ==
  /\ lastOp.op = "clearAll"
  /\ lastOp.before.factoryCount >= 1
  /\ lastOp.before.traitCount >= 1
  /\ lastOp.before.fileCount >= 1
  /\ lastOp.before.isInitialized
  /\ lastOp.before.cacheTimeout = 50
  /\ getCacheStats(cacheManager) =
       [factoryCount |-> 0, traitCount |-> 0, fileCount |-> 0,
        isInitialized |-> FALSE, cacheTimeout |-> 50]

-----------------------------------------------------------------------------
(* The sweep of the store (SpecCache)                                       *)

\* C23: cleanupExpiredEntries removes the factories and the traits whose age
\* at the time of the sweep exceeds the TTL, and keeps, as they are, all whose
\* age is at most the TTL, whether a lookup has read them or not
C23_SweepRemovesExpired ==
  [][lastOp'.op = "cleanupExpiredEntries" /\ opCount' = opCount + 1 =>
       /\ cacheManager'.factoryCache =
            {e \in cacheManager.factoryCache :
               now - e.timestamp <= cacheManager.cacheTimeout}
       /\ cacheManager'.traitCache =
            {e \in cacheManager.traitCache :
               now - e.timestamp <= cacheManager.cacheTimeout}]_vars

\* A sweep has kept an entry whose age is the TTL and has removed an older
\* trait, which the file index still lists
C23_Witness ==
  /\ lastOp.op = "cleanupExpiredEntries"
  /\ opCount = 3
  /\ \E e \in cacheManager.factoryCache :
       now - e.timestamp = cacheManager.cacheTimeout
  /\ cacheManager.traitCache = {}
  /\ \E x \in cacheManager.fileCache : x.traits # {}

-----------------------------------------------------------------------------
(* shouldUpdateFile under the watcher (SpecWatch)                           *)

\* C24: shouldUpdateFile(uri) returns true at once when the file has no index
\* entry; for a tracked file it returns, when stat has answered, true if the
\* modification time of the file on disk is strictly newer than the
\* lastModified of the entry it found, and false if it is not newer (or if
\* there is no file any more)
C24_ShouldUpdateFile ==
  [][/\ lastOp'.op = "handleFileChange" =>
          LET h == lastOp'.change
              uri == changes[h].uri
          IN changes[h].pc = "event" =>
               IF ~MapHas(cacheManager.fileCache, uri)
               THEN changes'[h].pc = "read"
               ELSE /\ changes'[h].pc = "stat"
                    /\ changes'[h].lastModified =
                         MapGet(cacheManager.fileCache, uri).lastModified
     /\ lastOp'.op = "statResolved" =>
          LET h == lastOp'.change
              uri == changes[h].uri
              newer == mtime[uri] # -1 /\ mtime[uri] > changes[h].lastModified
          IN changes[h].pc = "stat" =>
               /\ lastOp'.returned = newer
               /\ changes'[h].pc = IF newer THEN "read" ELSE "done"]_vars

\* For the second change of a file, tracked and modified after its entry was
\* written, shouldUpdateFile has returned true
C24_Witness ==
  /\ lastOp.op = "statResolved"
  /\ lastOp.returned
  /\ lastOp.change = 2
  /\ changes[1].pc = "done"
  /\ changes[1].uri = changes[2].uri
  /\ MapHas(cacheManager.fileCache, changes[2].uri)
  /\ mtime[changes[2].uri] > MapGet(cacheManager.fileCache, changes[2].uri).lastModified

-----------------------------------------------------------------------------
(* The provider before its initialization has completed (SpecProvider)      *)

\* C25: while the store is not initialised, provideDocumentLinks returns an
\* empty list for every document, and when no run of the initialization is in
\* flight the call starts one
C25_EmptyUntilInitialized ==
  [][lastOp'.op = "provideDocumentLinks" /\ ~cacheManager.isInitialized =>
       /\ result' = Some(<<>>)
       /\ InFlight = {} =>
            /\ Len(runs') = Len(runs) + 1
            /\ runs'[Len(runs')].pc = "search"
            /\ provider'.isInitializing
            /\ lastOp'.started]_vars

\* provideDocumentLinks of a provider constructed without automatic
\* initialization has returned the empty list and started the first run
C25_Witness ==
  /\ lastOp.op = "provideDocumentLinks"
  /\ lastOp.started
  /\ result = Some(<<>>)
  /\ Len(runs) = 1
  /\ runs[1].pc = "search"
  /\ provider.isInitializing
  /\ provider.initializationPromise
  /\ ~cacheManager.isInitialized

-----------------------------------------------------------------------------
(* The lines of the traits (SpecParse)                                      *)

\* C26: every trait parseText returns has, as location.line, the 0-based
\* line of its `trait :name do` header in the full text: that line is a trait
\* header of the trait's name, and the traits come in the order of their
\* headers, in the first factory block and in the later ones
C26_TraitLines ==
  \A r \in parseResult :
    LET lines == SplitLines(text) IN
    \A i \in DOMAIN r.traits :
      LET n == r.traits[i].location.line + 1 IN
      /\ n \in DOMAIN lines
      /\ IsTraitHeader(lines[n])
      /\ NameOf(lines[n][4]) = r.traits[i].name
      /\ \A k \in 1..(i - 1) :
           r.traits[k].location.line < r.traits[i].location.line

\* parseText has returned a trait of the first block, on line 1, and a trait
\* of the second block, on line 3
C26_Witness ==
  \E r \in parseResult :
    /\ Len(r.traits) = 2
    /\ r.traits[1].factoryName = "a"
    /\ r.traits[1].location.line = 1
    /\ r.traits[2].factoryName = "b"
    /\ r.traits[2].location.line = 3
    /\ IsTraitHeader(SplitLines(text)[4])

\* ---------------------------------------------------------------------------
\* The end of a run
\* ---------------------------------------------------------------------------

\* The finally block has released the guard: a call of initializeFactoryFiles
\* on an uninitialised store would start a run
GuardReleased(p, cm, rs) ==
  /\ ~p.isInitializing
  /\ ~p.initializationPromise
  /\ ~cm.isInitialized =>
       Len(initializeFactoryFiles([provider |-> p, cm |-> cm, runs |-> rs]).runs)
         > Len(rs)

\* C30: when a run ends, by success or by failure, the guard is released
\* (isInitializing false, initializationPromise null) so that a later call can
\* start a new run; after a failed run the initialized flag is false, and a
\* successful run has set it to true.
C30_RunEndReleasesGuard ==
  [][/\ lastOp'.op = "finally" =>
          /\ GuardReleased(provider', cacheManager', runs')
          /\ lastOp'.failed => ~cacheManager'.isInitialized
     /\ lastOp'.op = "finalize" => cacheManager'.isInitialized]_vars

\* ---------------------------------------------------------------------------
\* findFactoryFile and the run it awaits
\* ---------------------------------------------------------------------------

\* C29: findFactoryFile waits for initialization: called while the
\* initialized flag is false, it makes its lookup only after a run has
\* completed, also when a run started by another caller is in flight; the
\* call itself never makes the lookup.
C29_FindFactoryFileWaits ==
  [][lastOp'.op = "findFactoryFile" /\ ~cacheManager.isInitialized =>
       ~lastOp'.lookedUp]_vars

\* ---------------------------------------------------------------------------
\* Configuration changes and the runs in flight
\* ---------------------------------------------------------------------------

\* The run started last has not reached setInitialized(true).  A
\* configuration change starts a run, and while that run is in flight the
\* guard of initializeFactoryFiles lets no other caller start one: the run
\* started by the latest change is the run started last.
Rebuilding(rs) ==
  /\ Len(rs) > 0
  /\ rs[Len(rs)].pc \in {"search", "parse", "cache", "finalize"}

\* C28: a configuration change invalidates the index until it is rebuilt:
\* from handleConfigurationChange until a run started after the change has
\* completed, the initialized flag is false and provideDocumentLinks returns
\* an empty list, also when an older run was in flight at the change.
C28_ConfigurationChangeInvalidates ==
  [][/\ lastOp'.op = "handleConfigurationChange" =>
          Rebuilding(runs') /\ ~cacheManager'.isInitialized
     /\ Rebuilding(runs') => ~cacheManager'.isInitialized
     /\ Rebuilding(runs) /\ lastOp'.op = "provideDocumentLinks" =>
          result' = Some(<<>>)]_vars

-----------------------------------------------------------------------------
(* A run and the change events side by side: the constructor has started    *)
(* the run, or the watcher of the extension starts it; the files are saved  *)
(* with other contents while it searches, reads and caches, and              *)
(* handleFileChange handles each of the events.                               *)

InitOverlap ==
  /\ workspace \in {files \in [Uris -> UNION {WatchedTexts(uri) : uri \in Uris}] :
                      \A uri \in Uris : files[uri] \in WatchedTexts(uri)}
  /\ mtime = [uri \in Uris |-> 0]
  /\ now = 1
  /\ \E batchSize \in BatchSizes, autoInitialize \in BOOLEAN :
       LET st == [provider |-> [isInitializing |-> FALSE,
                                initializationPromise |-> FALSE,
                                batchSize |-> batchSize],
                  cm |-> NewCacheManager(0),
                  runs |-> <<>>]
           after == IF autoInitialize THEN initializeFactoryFilesAsync(st) ELSE st
       IN /\ provider = after.provider
          /\ cacheManager = after.cm
          /\ runs = after.runs
  /\ changes = <<>>
  /\ opCount = 0
  /\ lastOp = [op |-> "new"]
  /\ result = None
  /\ text = <<>>
  /\ parseResult = None

NextOverlap ==
  \/ \E r \in 1..MaxRuns : \E factoryFiles \in SearchResults :
       SearchResolved(r, factoryFiles)
  \/ \E r \in 1..MaxRuns : \E fileUri \in Uris, ok \in BOOLEAN :
       ReadResolved(r, fileUri, ok)
  \/ \E r \in 1..MaxRuns : CacheResults(r)
  \/ \E r \in 1..MaxRuns : Finalize(r)
  \/ \E r \in 1..MaxRuns : Finally(r)
  \/ FileWatcherEvent
  \/ \E uri \in Uris : \E content \in WatchedTexts(uri) : ModifyFile(uri, content)
  \/ \E h \in 1..MaxChanges : HandleFileChange(h)
  \/ \E h \in 1..MaxChanges : StatResolved(h)
  \/ \E h \in 1..MaxChanges : FileRead(h)
  \/ \E h \in 1..MaxChanges : FileParsed(h)

SpecOverlap == InitOverlap /\ [][NextOverlap]_vars

\* Every run has ended and every change event has been handled by an update
\* that has read the content the file has now
BothCompleted ==
  /\ Len(runs) > 0
  /\ \A r \in DOMAIN runs : runs[r].pc = "done"
  /\ Len(changes) > 0
  /\ \A h \in DOMAIN changes :
       /\ changes[h].pc = "done"
       /\ changes[h].content = workspace[changes[h].uri]

\* C27: when a single-file update and a full initialization overlap, then
\* after both have completed the store holds no trait located in the changed
\* file that the latest content of the file does not define (the factories
\* go the same way through both), in every interleaving of the steps of the
\* update with the clearAll, the parse and the check-before-insert of the
\* run.
C27_OverlapLeavesNoStaleEntry ==
  BothCompleted =>
    \A h \in DOMAIN changes :
      TraitsCachedFrom(cacheManager, changes[h].uri)
        \subseteq DefinedTraits(workspace[changes[h].uri])

-----------------------------------------------------------------------------
(* After the initialization: the store holds what the run has cached at     *)
(* time 0; time passes, documents are linked, factories are looked up and    *)
(* the store is swept, while no file and no setting changes.                  *)

InitExpiry ==
  /\ workspace \in {files \in [Uris -> UNION {WatchedTexts(uri) : uri \in Uris}] :
                      \A uri \in Uris : files[uri] \in WatchedTexts(uri)}
  /\ mtime = [uri \in Uris |-> 0]
  /\ now = 0
  /\ cacheManager = Initialized(workspace, 0)
  /\ provider = [isInitializing |-> FALSE, initializationPromise |-> FALSE,
                 batchSize |-> 1]
  /\ runs = <<>>
  /\ changes = <<>>
  /\ opCount = 0
  /\ lastOp = [op |-> "new"]
  /\ result = None
  /\ text = <<>>
  /\ parseResult = None

NextExpiry ==
  \/ Wait
  \/ \E document \in CallSites : ProvideDocumentLinks(document)
  \/ \E factoryName \in FactoryNames : FindFactoryFile(factoryName)
  \/ CleanupExpiredEntries

SpecExpiry == InitExpiry /\ [][NextExpiry]_vars

\* No lookup at time t resolves the factory, or the trait of the factory
UnresolvableFactory(cm, factoryName, t) ==
  getFactoryValue(cm, factoryName, t) = None

UnresolvableTrait(cm, factoryName, traitName, t) ==
  getTraitValue(cm, factoryName, traitName, t) = None

\* The link of the list that points at the trait, or at the factory
LinksTrait(links, factoryName, traitName) ==
  \E k \in DOMAIN links : links[k].tooltip = <<"trait", traitName, factoryName>>

LinksFactory(links, factoryName) ==
  \E k \in DOMAIN links : links[k].tooltip = <<"factory", factoryName>>

\* C31: the expiry of entries never starts a re-population: once the
\* initialization has completed, entries that expire, on a lookup or by the
\* sweep, leave the initialized flag true and no run is started; with no
\* file change and no configuration change a name that has become
\* unresolvable stays so, and no later provideDocumentLinks links it.
C31_ExpiryNeverRepopulates ==
  [][/\ cacheManager'.isInitialized
     /\ runs' = runs
     /\ ~provider'.isInitializing /\ ~provider'.initializationPromise
     /\ \A factoryName \in FactoryNames :
          /\ UnresolvableFactory(cacheManager, factoryName, now) =>
               /\ UnresolvableFactory(cacheManager', factoryName, now')
               /\ lastOp'.op = "provideDocumentLinks" =>
                    \E links \in result' : ~LinksFactory(links, factoryName)
          /\ \A traitName \in TraitNames :
               UnresolvableTrait(cacheManager, factoryName, traitName, now) =>
                 /\ UnresolvableTrait(cacheManager', factoryName, traitName, now')
                 /\ lastOp'.op = "provideDocumentLinks" =>
                      \E links \in result' :
                        ~LinksTrait(links, factoryName, traitName)]_vars

\* The trait t of factory a was cached by the initialization and has expired;
\* provideDocumentLinks of create(:a, :t) has returned no link, and the store
\* is still initialised with no run started
C31_Witness ==
  /\ lastOp.op = "provideDocumentLinks"
  /\ lastOp.document = <<"create", "(", ":a", ",", " ", ":t", ")">>
  /\ DefinedTraits(workspace["spec/factories/u.rb"]) # {}
  /\ now > cacheManager.cacheTimeout
  /\ result = Some(<<>>)
  /\ ~MapHas(cacheManager.traitCache, "a:t")
  /\ cacheManager.isInitialized
  /\ runs = <<>>

-----------------------------------------------------------------------------
(* A name defined in two files: the store as an initialization over the two  *)
(* files leaves it, both files defining the same factory; then files are      *)
(* indexed again one by one, the factory is looked up, time passes, and the   *)
(* initialization is run again.                                                *)

\* The store writes of initializeFactoryFiles over the parse results of the
\* files in priority order: clearAll, the check-before-insert of the
\* factories, setInitialized(true)
Reindexed(cm, allFactories, t) ==
  setInitialized(CacheNewFactories(clearAll(cm), allFactories, t), TRUE)

InitShadow ==
  /\ \E n \in FactoryNames :
       cacheManager =
         Reindexed(NewCacheManager(0),
                   <<Factory(n, Location(WatchedFiles[1], 0)),
                     Factory(n, Location(WatchedFiles[2], 0))>>, 0)
  /\ now = 0
  /\ opCount = 0
  /\ lastOp = [op |-> "new"]
  /\ result = None
  /\ text = <<>>
  /\ parseResult = None
  /\ workspace = <<>>
  /\ provider = Null
  /\ runs = <<>>
  /\ mtime = <<>>
  /\ changes = <<>>

\* A full initialization over files that define the given factories
InitializeFactoryFiles(first, second) ==
  /\ Called([op |-> "initializeFactoryFiles", factories |-> first \o second])
  /\ cacheManager' = Reindexed(cacheManager, first \o second, now)
  /\ result' = None

NextShadow ==
  \/ Tick
  \/ \E n \in FactoryNames : GetFactory(n)
  \/ \E u \in Uris : \E fs \in FileFactoryLists(u) : UpdateFileCache(u, fs, <<>>)
  \/ \E first \in FileFactoryLists(WatchedFiles[1]),
        second \in FileFactoryLists(WatchedFiles[2]) :
       InitializeFactoryFiles(first, second)

SpecShadow == InitShadow /\ [][NextShadow]_vars

\* The step is a call that hands a definition of n to the store
Redefines(n) ==
  /\ opCount' = opCount + 1
  /\ lastOp'.op \in {"updateFileCache", "initializeFactoryFiles"}
  /\ \E k \in DOMAIN lastOp'.factories : lastOp'.factories[k].name = n

\* The step indexes again, without n, the file whose definition of n is cached
DropsCached(n) ==
  /\ opCount' = opCount + 1
  /\ lastOp'.op = "updateFileCache"
  /\ \E f \in getFactoryValue(cacheManager, n, now) :
       f.location.uri = lastOp'.name
  /\ \A k \in DOMAIN lastOp'.factories : lastOp'.factories[k].name # n

\* C32: the store does not fall back to a shadowed definition: when two
\* indexed files define factory n and the file whose definition is cached
\* is indexed again with content that does not define n, getFactory(n)
\* returns not-found afterwards, although the other file still defines n,
\* until that file is indexed again or a full initialization runs.
C32_NoFallbackToShadowed ==
  [][\A n \in FactoryNames :
       /\ DropsCached(n) => getFactoryValue(cacheManager', n, now') = None
       /\ getFactoryValue(cacheManager, n, now) = None /\ ~Redefines(n) =>
            getFactoryValue(cacheManager', n, now') = None]_vars

\* Both files define a and the definition of spec/factories/u.rb is cached;
\* the first call has indexed that file again without a, the other file is as
\* it was, and a lookup of a finds nothing
C32_Witness ==
  /\ opCount = 1
  /\ lastOp.op = "updateFileCache"
  /\ lastOp.name = WatchedFiles[1]
  /\ lastOp.factories = <<>>
  /\ lastOp.stale = {"a"}
  /\ getFactoryValue(cacheManager, "a", now) = None

\* ---------------------------------------------------------------------------
\* The change event of a deleted file
\* ---------------------------------------------------------------------------

\* C33: when stat fails for a tracked file (the file was deleted),
\* shouldUpdateFile removes every factory and trait attributed to the file
\* together with its index entry and returns false: handling the change event
\* of a deleted file leaves none of its definitions in the store and performs
\* no parse.
C33_DeletedFileRemoved ==
  [][lastOp'.op = "statResolved" =>
       LET h == lastOp'.change
           uri == changes[h].uri
       IN changes[h].pc = "stat" /\ mtime[uri] = -1 =>
            /\ ~lastOp'.returned
            /\ changes'[h].pc = "done"
            /\ changes'[h].content = <<>>
            /\ ~MapHas(cacheManager'.fileCache, uri)
            /\ TraitsCachedFrom(cacheManager', uri) = {}
            /\ \A e \in cacheManager'.factoryCache :
                 e.factory.location.uri # uri]_vars

\* stat has failed for the deleted spec/factories/u.rb, whose trait t of
\* factory a was cached: the trait and the index entry are gone and the
\* handler has returned
C33_Witness ==
  /\ lastOp.op = "statResolved"
  /\ ~lastOp.returned
  /\ lastOp.found = {"a:t"}
  /\ changes[lastOp.change].uri = "spec/factories/u.rb"
  /\ changes[lastOp.change].pc = "done"
  /\ mtime["spec/factories/u.rb"] = -1
  /\ ~MapHas(cacheManager.traitCache, "a:t")
  /\ ~MapHas(cacheManager.fileCache, "spec/factories/u.rb")

-----------------------------------------------------------------------------
(* One call of parseMultipleFiles, loop by loop: the parser is constructed   *)
(* with or without a batch size, setBatchSize may be called, then            *)
(* parseMultipleFiles(fileUris) cuts its batches in the loop of              *)
(* createBatches and reads and parses batch after batch.  The call in flight *)
(* is the only element of `runs`.                                            *)

\* The iterations of the loop of createBatches that are followed
MaxIterations == 4

\* The batch sizes handed to the constructor; 0 stands for no argument as well
CtorBatchSizes == {-1, 0, 1, 2, 100}

\* The lists handed to parseMultipleFiles
FileLists == {<<>>} \cup {<<u>> : u \in Uris} \cup SearchResults

\* Array.prototype.slice(start, end): a negative index counts from the end
SliceIndex(items, k) ==
  IF k < 0 THEN (IF Len(items) + k > 0 THEN Len(items) + k ELSE 0)
  ELSE IF k < Len(items) THEN k ELSE Len(items)

slice(items, start, end) ==
  SubSeq(items, SliceIndex(items, start) + 1, SliceIndex(items, end))

InitBatches ==
  /\ \E batchSize \in CtorBatchSizes :
       /\ provider = [isInitializing |-> FALSE, initializationPromise |-> FALSE,
                      batchSize |-> NewFactoryParser(batchSize)]
       /\ lastOp = [op |-> "new", batchSize |-> batchSize]
  /\ cacheManager = NewCacheManager(0)
  /\ now = 0
  /\ opCount = 0
  /\ result = None
  /\ text = <<>>
  /\ parseResult = None
  /\ workspace = <<>>
  /\ runs = <<>>
  /\ mtime = <<>>
  /\ changes = <<>>

Batching(op) ==
  /\ lastOp' = op
  /\ UNCHANGED <<cacheManager, now, opCount, result, parserVars, workspace,
                 provider, mtime, changes>>

\* parseMultipleFiles(fileUris) up to the loop of createBatches; with an
\* empty list it returns at once
ParseMultipleFiles(fileUris) ==
  /\ runs = <<>>
  /\ runs' = <<[pc |-> IF fileUris = <<>> THEN "returned" ELSE "createBatches",
                fileUris |-> fileUris, batchSize |-> provider.batchSize,
                i |-> 0, batches |-> <<>>, batch |-> 1, parsed |-> <<>>]>>
  /\ Batching([op |-> "parseMultipleFiles"])

\* One test of the loop `for (let i = 0; i < items.length; i += batchSize)`
CreateBatchesLoop ==
  /\ runs # <<>>
  /\ runs[1].pc = "createBatches"
  /\ runs' = <<[runs[1] EXCEPT !.pc = IF runs[1].i < Len(runs[1].fileUris)
                                      THEN "slice" ELSE "batches"]>>
  /\ Batching([op |-> "createBatches"])

\* One turn of its body and its increment.  A loop that has made
\* MaxIterations turns goes on turning: of its batches the first
\* MaxIterations are kept, and i is counted no further
CreateBatchesSlice ==
  /\ runs # <<>>
  /\ runs[1].pc = "slice"
  /\ LET call == runs[1]
     IN runs' = <<IF Len(call.batches) < MaxIterations
                  THEN [call EXCEPT
                          !.pc = "createBatches",
                          !.batches = Append(@, slice(call.fileUris, call.i,
                                                      call.i + call.batchSize)),
                          !.i = @ + call.batchSize]
                  ELSE [call EXCEPT !.pc = "createBatches"]>>
  /\ Batching([op |-> "slice"])

\* One turn of `for (const batch of batches)`: every file of the batch is
\* read and parsed (safeParseFile), Promise.all resolves; after the last
\* batch the call returns
ParseBatch ==
  /\ runs # <<>>
  /\ runs[1].pc = "batches"
  /\ LET call == runs[1]
     IN runs' = <<IF call.batch <= Len(call.batches)
                  THEN [call EXCEPT !.parsed = @ \o call.batches[call.batch],
                                    !.batch = @ + 1]
                  ELSE [call EXCEPT !.pc = "returned"]>>
  /\ Batching([op |-> "parseBatch"])

NextBatches ==
  \/ \E batchSize \in BatchSizeArgs :
       runs = <<>> /\ SetBatchSize(batchSize)
  \/ \E fileUris \in FileLists : ParseMultipleFiles(fileUris)
  \/ CreateBatchesLoop
  \/ CreateBatchesSlice
  \/ ParseBatch

SpecBatches == InitBatches /\ [][NextBatches]_vars

\* Every step that can be taken is taken in the end
SpecBatchesFair == SpecBatches /\ WF_vars(NextBatches)

Returned == runs # <<>> /\ runs[1].pc = "returned"

RECURSIVE Concat(_)
Concat(lists) ==
  IF lists = <<>> THEN <<>> ELSE Head(lists) \o Concat(Tail(lists))

\* C34: parseMultipleFiles terminates for every list and every batch size
\* the parser can hold, and createBatches cuts the list into consecutive
\* groups of at most batchSize files whose concatenation is the list, so
\* that every file is read and parsed exactly once.
C34_BatchingTerminates ==
  /\ <>Returned
  /\ [](Returned =>
          /\ Concat(runs[1].batches) = runs[1].fileUris
          /\ \A k \in DOMAIN runs[1].batches :
               Len(runs[1].batches[k]) \in 1..runs[1].batchSize
          /\ runs[1].parsed = runs[1].fileUris)

-----------------------------------------------------------------------------
(* The merge of parseMultipleFiles, read by read: the reads of a batch are   *)
(* started together and settle in any order, each resolving with its parse   *)
(* result or, after a failure, with null; Promise.all resolves with the       *)
(* values in the order of the batch, and the values are merged.  The call is  *)
(* the only element of `runs`; `settled` lists the reads of the current       *)
(* batch in the order they have settled.                                       *)

\* A promise list that resolves with the values in the order of settlement
PromiseAll_AsSettled(batch, settled) ==
  [k \in DOMAIN settled |-> settled[k].value]

\* Promise.all(parsePromises): the values in the order of the batch
PromiseAll(batch, settled) ==
  [k \in DOMAIN batch |->
     (CHOOSE s \in Range(settled) : s.uri = batch[k]).value]

\* results.forEach: the factories, and the traits, of the values that are
\* not null
RECURSIVE PushFactories(_)
PushFactories(results) ==
  IF results = <<>> THEN <<>>
  ELSE (IF Head(results) = None THEN <<>>
        ELSE (CHOOSE parsed \in Head(results) : TRUE).factories)
       \o PushFactories(Tail(results))

RECURSIVE PushTraits(_)
PushTraits(results) ==
  IF results = <<>> THEN <<>>
  ELSE (IF Head(results) = None THEN <<>>
        ELSE (CHOOSE parsed \in Head(results) : TRUE).traits)
       \o PushTraits(Tail(results))

InitMerge ==
  /\ workspace \in {files \in [Uris -> UNION {WatchedTexts(uri) : uri \in Uris}] :
                      \A uri \in Uris : files[uri] \in WatchedTexts(uri)}
  /\ \E batchSize \in BatchSizes, fileUris \in SearchResults :
       /\ provider = [isInitializing |-> FALSE, initializationPromise |-> FALSE,
                      batchSize |-> batchSize]
       /\ runs = <<[pc |-> "batch", fileUris |-> fileUris,
                    batches |-> createBatches(fileUris, batchSize),
                    batch |-> 1, settled |-> <<>>,
                    allFactories |-> <<>>, allTraits |-> <<>>]>>
  /\ lastOp = [op |-> "parseMultipleFiles"]
  /\ cacheManager = NewCacheManager(0)
  /\ now = 0
  /\ opCount = 0
  /\ result = None
  /\ text = <<>>
  /\ parseResult = None
  /\ mtime = <<>>
  /\ changes = <<>>

\* safeParseFile(uri) of the current batch settles: with the parse result,
\* or with null (None) when parseFile has thrown
SafeParseFileSettled(uri, ok) ==
  /\ runs[1].pc = "batch"
  /\ uri \in Range(runs[1].batches[runs[1].batch])
  /\ \A k \in DOMAIN runs[1].settled : runs[1].settled[k].uri # uri
  /\ runs' = <<[runs[1] EXCEPT !.settled =
                  Append(@, [uri |-> uri,
                             value |-> IF ok
                                       THEN Some(parseFile(workspace, uri, TRUE))
                                       ELSE None])]>>
  /\ Batching([op |-> "safeParseFile", uri |-> uri])

\* Every read of the batch has settled: Promise.all resolves, the results are
\* merged, and the next batch starts or the call returns
BatchMerged ==
  /\ runs[1].pc = "batch"
  /\ Len(runs[1].settled) = Len(runs[1].batches[runs[1].batch])
  /\ LET call == runs[1]
         results == PromiseAll(call.batches[call.batch], call.settled)
     IN runs' = <<[call EXCEPT
                     !.allFactories = @ \o PushFactories(results),
                     !.allTraits = @ \o PushTraits(results),
                     !.settled = <<>>,
                     !.batch = @ + 1,
                     !.pc = IF call.batch = Len(call.batches)
                            THEN "returned" ELSE "batch"]>>
  /\ Batching([op |-> "merge", settled |-> runs[1].settled])

NextMerge ==
  \/ \E uri \in Uris, ok \in BOOLEAN : SafeParseFileSettled(uri, ok)
  \/ BatchMerged

SpecMerge == InitMerge /\ [][NextMerge]_vars

\* What the list has contributed so far: the traits defined by the files of
\* the list, file by file, that the result holds
RECURSIVE InListOrder(_, _)
InListOrder(fileUris, traits) ==
  IF fileUris = <<>> THEN <<>>
  ELSE SelectSeq(parseText(workspace[Head(fileUris)], Head(fileUris)).traits,
                 LAMBDA tr : tr \in Range(traits))
       \o InListOrder(Tail(fileUris), traits)

RECURSIVE FactoriesInListOrder(_, _)
FactoriesInListOrder(fileUris, factories) ==
  IF fileUris = <<>> THEN <<>>
  ELSE SelectSeq(parseText(workspace[Head(fileUris)], Head(fileUris)).factories,
                 LAMBDA f : f \in Range(factories))
       \o FactoriesInListOrder(Tail(fileUris), factories)

\* C35: the order of the factories and of the traits parseMultipleFiles
\* returns does not depend on the order in which the reads complete: it is
\* the concatenation of the results of the files in the order of the list
\* of the caller, each file keeping the order of its definitions.
C35_MergeInListOrder ==
  /\ runs[1].allTraits = InListOrder(runs[1].fileUris, runs[1].allTraits)
  /\ runs[1].allFactories
       = FactoriesInListOrder(runs[1].fileUris, runs[1].allFactories)

\* Both files of one batch define a trait, the read of the second file of the
\* list has settled first, and the call has returned the traits in the order
\* of the list
C35_Witness ==
  /\ runs[1].pc = "returned"
  /\ lastOp.op = "merge"
  /\ Len(lastOp.settled) = 2
  /\ lastOp.settled[1].uri = runs[1].fileUris[2]
  /\ Len(runs[1].allTraits) = 2
  /\ runs[1].allTraits[1].location.uri = runs[1].fileUris[1]

\* ---------------------------------------------------------------------------
\* The timestamp of an upsert
\* ---------------------------------------------------------------------------

\* The step is a call of the store operation
Calls(name) == opCount' = opCount + 1 /\ lastOp'.op = name

\* C36: cacheFactory and cacheTrait refresh the timestamp of the entry: an
\* upsert of a name that is cached restarts its TTL window, the entry is
\* retrievable until its age, measured from the latest upsert, exceeds the
\* TTL, and the file index lists the name under the file of the upserted
\* entity.
C36_UpsertRefreshesTimestamp ==
  [][/\ Calls("cacheFactory") =>
          LET e == MapGet(cacheManager'.factoryCache, lastOp'.name)
          IN /\ e.timestamp = now
             /\ MapHas(cacheManager'.fileCache, e.factory.location.uri)
             /\ e.key \in MapGet(cacheManager'.fileCache,
                                 e.factory.location.uri).factories
     /\ Calls("cacheTrait") =>
          LET e == MapGet(cacheManager'.traitCache, lastOp'.name)
          IN /\ e.timestamp = now
             /\ MapHas(cacheManager'.fileCache, e.trait.location.uri)
             /\ e.key \in MapGet(cacheManager'.fileCache,
                                 e.trait.location.uri).traits
     /\ \A e \in cacheManager'.factoryCache \ cacheManager.factoryCache :
          /\ lastOp'.op \in {"cacheFactory", "updateFileCache"}
          /\ e.timestamp = now
     /\ \A e \in cacheManager'.traitCache \ cacheManager.traitCache :
          /\ lastOp'.op \in {"cacheTrait", "updateFileCache"}
          /\ e.timestamp = now
     /\ Calls("getFactory") /\ lastOp'.hit =>
          LET e == MapGet(cacheManager.factoryCache, lastOp'.name)
          IN result' = IF now - e.timestamp <= cacheManager.cacheTimeout
                       THEN Some(e.factory) ELSE None
     /\ Calls("getTrait") /\ lastOp'.hit =>
          LET e == MapGet(cacheManager.traitCache, lastOp'.name)
          IN result' = IF now - e.timestamp <= cacheManager.cacheTimeout
                       THEN Some(e.trait) ELSE None]_vars

\* The trait a:t was cached from one file at time 0 and again from the other
\* file at time 100; at time 200, older than the TTL of 100 since the first
\* upsert and not since the second, getTrait returns it
C36_Witness ==
  /\ lastOp.op = "getTrait"
  /\ lastOp.name = "a:t"
  /\ now = 200
  /\ cacheManager.cacheTimeout = 100
  /\ result # None
  /\ \E e \in cacheManager.traitCache :
       /\ e.key = "a:t"
       /\ e.timestamp = 100
       /\ \E info \in cacheManager.fileCache :
            /\ info.key # e.trait.location.uri
            /\ info.lastModified = 0
            /\ "a:t" \in info.traits

-----------------------------------------------------------------------------
(* Factories nested in factories                                           *)
(*                                                                         *)
(* A file is written block by block: a factory may be opened inside an     *)
(* open factory, every line inside a block is indented, and the file may   *)
(* be parsed after any line.                                               *)

MaxNestedLines == 12
MaxFactoryHeaders == 3
MaxTraitHeaders == 3

Count(str, word) == Cardinality({k \in DOMAIN str : str[k] = word})

\* The blocks open at the end of the text
OpenBlocks(str) == Count(str, "do") - Count(str, "end")

Indented(line) == IF Head(line) = " " THEN line ELSE <<" ">> \o line

InitNested == InitParse

AppendLine(line) ==
  /\ parseResult = None
  /\ LineCount(text) < MaxNestedLines
  /\ text' = IF text = <<>> THEN line
             ELSE text \o <<"\n">> \o (IF OpenBlocks(text) > 0 THEN Indented(line) ELSE line)
  /\ UNCHANGED <<parseResult, cacheVars, providerVars>>

OpenFactory(c) ==
  /\ Count(text, "factory") < MaxFactoryHeaders
  /\ AppendLine(FactoryHeader(c))

OpenTrait(c) ==
  /\ OpenBlocks(text) > 0
  /\ Count(text, "trait") < MaxTraitHeaders
  /\ AppendLine(TraitHeader(c))

CloseBlock ==
  /\ OpenBlocks(text) > 0
  /\ parseResult = None
  /\ LineCount(text) < MaxNestedLines
  /\ text' = text \o <<"\n">> \o (IF OpenBlocks(text) > 1 THEN Indented(EndLine) ELSE EndLine)
  /\ UNCHANGED <<parseResult, cacheVars, providerVars>>

NextNested ==
  \/ \E c \in {":a", ":b"} : OpenFactory(c)
  \/ \E c \in {":t"} : OpenTrait(c)
  \/ CloseBlock
  \/ \E fileUri \in Uris : ParseText(fileUri)

SpecNested == InitNested /\ [][NextNested]_vars

\* A line without its indentation
RECURSIVE Unindented(_)
Unindented(line) ==
  IF line # <<>> /\ Head(line) = " " THEN Unindented(Tail(line)) ELSE line

\* For the trait headers from line n on, in document order: the name of the
\* trait and the name of the factory header that most recently precedes it
RECURSIVE TraitsUnderHeaders(_, _, _)
TraitsUnderHeaders(lines, n, header) ==
  IF n > Len(lines) THEN <<>>
  ELSE LET line == Unindented(lines[n]) IN
       IF line # <<>> /\ Head(line) = "factory"
       THEN TraitsUnderHeaders(lines, n + 1, NameOf(line[3]))
       ELSE (IF line # <<>> /\ Head(line) = "trait"
             THEN <<[name |-> NameOf(line[3]), factoryName |-> header]>>
             ELSE <<>>) \o TraitsUnderHeaders(lines, n + 1, header)

\* A nested factory with a trait of the parent before it and a trait of its
\* own, and a top-level factory with a trait after the parent
NestedWithTraits ==
  JoinLines(<<FactoryHeader(":a"), TraitHeader(":t"), Indented(EndLine),
              Indented(FactoryHeader(":b"))>>)
    \o <<"\n">> \o
  JoinLines(<<TraitHeader(":t"), Indented(EndLine), Indented(EndLine), EndLine>>)
    \o <<"\n">> \o
  JoinLines(<<FactoryHeader(":b"), TraitHeader(":t"), Indented(EndLine), EndLine>>)

\* C37: parseText attributes each trait it returns to the factory whose
\* `factory :x do` header most recently precedes it, and for a file whose
\* blocks are all closed it returns every trait: a trait of the parent before a
\* nested header goes to the parent, a trait in the nested factory to the
\* nested factory, a trait of a following top-level factory to that factory.
C37_NestedTraitsAttributed ==
  \A r \in parseResult :
    LET expected == TraitsUnderHeaders(SplitLines(text), 1, Undefined)
        returned == [i \in DOMAIN r.traits |->
                       [name |-> r.traits[i].name, factoryName |-> r.traits[i].factoryName]]
    IN /\ Len(returned) <= Len(expected)
       /\ returned = SubSeq(expected, 1, Len(returned))
       /\ OpenBlocks(text) = 0 => returned = expected

C37_Witness ==
  /\ parseResult # None
  /\ text = NestedWithTraits
  /\ \A r \in parseResult :
       [i \in DOMAIN r.traits |-> r.traits[i].factoryName] = <<"a", "b", "b">>

-----------------------------------------------------------------------------
(* Two traits of one name in one factory                                   *)

\* The positions in the traits list of the traits named traitName that belong
\* to the factory named factoryName
SameTrait(traits, traitName, factoryName) ==
  {i \in DOMAIN traits :
     traits[i].name = traitName /\ traits[i].factoryName = factoryName}

\* C38: when parseText finds two traits of one name in one factory, the
\* returned factory holds exactly one entry under that name and it is the
\* later of the two, while the returned traits list holds both in document
\* order.
C38_LastTraitWins ==
  \A r \in parseResult :
    \A i, k \in DOMAIN r.traits :
      (i < k /\ k \in SameTrait(r.traits, r.traits[i].name, r.traits[i].factoryName)) =>
        LET same == SameTrait(r.traits, r.traits[i].name, r.traits[i].factoryName)
            later == r.traits[Max(same)]
        IN /\ r.traits[i].location.line < r.traits[k].location.line
           /\ \E f \in DOMAIN r.factories :
                /\ r.factories[f].name = later.factoryName
                /\ Cardinality({e \in r.factories[f].traits : e.key = later.name}) = 1
                /\ getTrait(r.factories[f], later.name) = Some(later)

-----------------------------------------------------------------------------
(* ErrorNotificationService.retryOperation                                 *)
(*                                                                         *)
(* One call of retryOperation, step by step.  The call is the one element  *)
(* of `runs`: `attempt` is the loop variable, `pc` the await the call is   *)
(* suspended at, `outcomes` what each invocation of the operation came to, *)
(* `startedAt` and `loggedAt` the times the invocations started and the    *)
(* times logError resolved after a failure.  The operation resolves or     *)
(* rejects as it likes; the timer of the delay fires once `delay` ms have  *)
(* passed.                                                                 *)

MaxRetryTime == 300
MaxAttemptsArgs == {-1, 0, 1, 2, 3}
DelayArgs == {-100, 0, 100, 200}
OperationValues == {"v1", "v2"}
Rejected == "rejected"

NewRetry(maxAttempts, delay) ==
  [maxAttempts |-> maxAttempts, delay |-> delay, attempt |-> 0, pc |-> "new",
   outcomes |-> <<>>, startedAt |-> <<>>, loggedAt |-> <<>>,
   timerAt |-> 0, timers |-> 0, value |-> Undefined]

\* attempt++ (or attempt = 1), the test attempt <= maxAttempts, and either the
\* call of operation() or the throw after the loop
nextAttempt(r, t) ==
  IF r.attempt + 1 <= r.maxAttempts
  THEN [r EXCEPT !.attempt = @ + 1, !.pc = "operation", !.startedAt = Append(@, t)]
  ELSE [r EXCEPT !.attempt = @ + 1, !.pc = "thrown"]

\* A catch block without the break: it sets the timer after the last attempt too
afterLogError_NoBreak(r, t) ==
  LET logged == [r EXCEPT !.loggedAt = Append(@, t)] IN
  IF r.delay > 0
  THEN [logged EXCEPT !.pc = "timer", !.timerAt = t + r.delay, !.timers = @ + 1]
  ELSE nextAttempt(logged, t)

\* The catch block after `await this.logError(errorInfo)`
afterLogError(r, t) ==
  LET logged == [r EXCEPT !.loggedAt = Append(@, t)] IN
  IF r.attempt = r.maxAttempts
  THEN [logged EXCEPT !.pc = "thrown"]
  ELSE IF r.delay > 0
       THEN [logged EXCEPT !.pc = "timer", !.timerAt = t + r.delay, !.timers = @ + 1]
       ELSE nextAttempt(logged, t)

InitRetry == InitParse

RetryUnchanged ==
  UNCHANGED <<cacheManager, opCount, lastOp, result, parserVars, workspace,
              provider, mtime, changes>>

RetryOperation(maxAttempts, delay) ==
  /\ runs = <<>>
  /\ runs' = <<nextAttempt(NewRetry(maxAttempts, delay), now)>>
  /\ UNCHANGED now
  /\ RetryUnchanged

OperationResolved(value) ==
  /\ runs # <<>>
  /\ runs[1].pc = "operation"
  /\ runs' = <<[runs[1] EXCEPT !.pc = "returned", !.value = value,
                               !.outcomes = Append(@, value)]>>
  /\ UNCHANGED now
  /\ RetryUnchanged

OperationRejected ==
  /\ runs # <<>>
  /\ runs[1].pc = "operation"
  /\ runs' = <<[runs[1] EXCEPT !.pc = "logError", !.outcomes = Append(@, Rejected)]>>
  /\ UNCHANGED now
  /\ RetryUnchanged

LogErrorResolved ==
  /\ runs # <<>>
  /\ runs[1].pc = "logError"
  /\ runs' = <<afterLogError(runs[1], now)>>
  /\ UNCHANGED now
  /\ RetryUnchanged

TimerFired ==
  /\ runs # <<>>
  /\ runs[1].pc = "timer"
  /\ now >= runs[1].timerAt
  /\ runs' = <<nextAttempt(runs[1], now)>>
  /\ UNCHANGED now
  /\ RetryUnchanged

TimePasses ==
  /\ runs # <<>>
  /\ now < MaxRetryTime
  /\ now' = now + 100
  /\ UNCHANGED runs
  /\ RetryUnchanged

NextRetry ==
  \/ \E maxAttempts \in MaxAttemptsArgs, delay \in DelayArgs :
       RetryOperation(maxAttempts, delay)
  \/ \E value \in OperationValues : OperationResolved(value)
  \/ OperationRejected
  \/ LogErrorResolved
  \/ TimerFired
  \/ TimePasses

SpecRetry == InitRetry /\ [][NextRetry]_vars

Invocations(r) == Len(r.startedAt)

AllRejected(outcomes) == \A i \in DOMAIN outcomes : outcomes[i] = Rejected

\* C39: retryOperation invokes the operation at most maxAttempts times; it
\* returns the value of the first attempt that succeeds and makes no further
\* attempt; it throws once maxAttempts attempts in a row have failed; an attempt
\* after the first starts no sooner than the delay after the failure before it,
\* and after the last failure it throws without waiting.
C39_RetryOperation ==
  [][\A i \in DOMAIN runs' :
       LET r == runs'[i] IN
       /\ Invocations(r) <= (IF r.maxAttempts > 0 THEN r.maxAttempts ELSE 0)
       /\ r.pc = "returned" =>
            /\ r.outcomes # <<>>
            /\ Len(r.outcomes) = Invocations(r)
            /\ AllRejected(SubSeq(r.outcomes, 1, Len(r.outcomes) - 1))
            /\ r.outcomes[Len(r.outcomes)] = r.value
            /\ r.value \in OperationValues
       /\ (runs # <<>> /\ runs[i].pc \in {"returned", "thrown"}) => r = runs[i]
       /\ r.pc = "thrown" =>
            /\ AllRejected(r.outcomes)
            /\ Len(r.outcomes) = (IF r.maxAttempts > 0 THEN r.maxAttempts ELSE 0)
            /\ r.timers = (IF r.maxAttempts > 1 /\ r.delay > 0 THEN r.maxAttempts - 1 ELSE 0)
            /\ (runs # <<>> /\ runs[i].pc # "thrown") =>
                 (runs[i].pc = "logError" /\ now' = now)
       /\ (Len(r.outcomes) = r.maxAttempts /\ AllRejected(r.outcomes)
             /\ Len(r.loggedAt) = r.maxAttempts) => r.pc = "thrown"
       /\ \A n \in DOMAIN r.startedAt :
            n > 1 => /\ r.outcomes[n - 1] = Rejected
                     /\ r.startedAt[n] >= r.loggedAt[n - 1] + r.delay
                     /\ r.startedAt[n] >= r.loggedAt[n - 1]]_vars

\* Two attempts failed, the delay of 100 ms passed after each, and the third
\* attempt returned its value
C39_Witness ==
  /\ runs # <<>>
  /\ runs[1].pc = "returned"
  /\ runs[1].maxAttempts = 3
  /\ runs[1].delay = 100
  /\ runs[1].outcomes = <<Rejected, Rejected, "v2">>
  /\ runs[1].timers = 2
  /\ runs[1].startedAt = <<0, 100, 200>>

====
